---- MODULE Spec2Model ----
(***************************************************************************)
(* Model of the Aether host bridge (python/src/aether/runtime.py and       *)
(* binary.py): tool registration, execute(), the callback trampoline and   *)
(* the per-runtime call handler, driven by a native dispatch core whose    *)
(* worker threads run the calls of a batch concurrently.                   *)
(***************************************************************************)
EXTENDS Integers, Sequences, FiniteSets, TLC

\* ------------------------------------------------------------------ bounds

\* Total number of calls the host threads may submit over all batches.
MaxSubmitted == 2

\* Number of tools the host registers.
MaxTools == 1

\* Longest argument list and longest descriptor list handed to the codec
\* helpers.
MaxLen == 2

\* Number of registrations in the registration specification.
MaxRegs == 3

\* Number of times the native handle of the runtime is handed to
\* aether_destroy_runtime.
MaxTeardowns == 2

\* Number of distinct values id(self) takes.
MaxTokens == 3

\* Jobs that reach evaluation_queue from somewhere else than ingest_trace.
MaxPushes == 1

\* Width in bits of the tool_id field of the wire record, scaled down from
\* the 16 bits of "<H" so that the counter can be driven across it.
IdWidth == 3

\* The host-tool base of the scaled record: inside the field, as 1000 is
\* inside 16 bits.
WIDE_TOOL_BASE == 2 ^ (IdWidth - 1)

\* ------------------------------------------------------- program constants

PYTHON_TOOL_BASE == 1000

U16_MAX == 65535

ERR_UNKNOWN_TOOL == -404

ERR_BAD_SLOT == -400

ERR_HOST_RAISED == -500

ERR_STALE_CONTEXT == -410

\* _HEADER.size and _CALL.size
HEADER_SIZE == 8

CALL_SIZE == 16

\* ------------------------------------------------------------ environment

\* Host threads that call execute() on the one runtime, each once. The
\* threads are interchangeable, so they enter execute() in this order.
ThreadOrder == <<"h1", "h2">>

Threads == {ThreadOrder[k] : k \in 1..Len(ThreadOrder)}

\* The context token of the runtime (id(self)).
Token == "rt"

\* Host implementations the program registers: py_double(value) returns
\* value * 2, py_fail() raises.
Impls == {"double", "fail"}

\* (name, implementation) pairs the host passes to tool().
RegChoices == {<<"py_double", "double">>, <<"py_fail", "fail">>}

\* Exception identities stored in the output table.
TYPE_ERROR == 0 - 1

TOOL_ERROR == 0 - 2

\* Payload values as the host writes them in a call descriptor.
PNone == [kind |-> "none", args |-> <<>>, kwargs |-> {}, hasArgs |-> FALSE, hasKwargs |-> FALSE, val |-> 0]

PScalar(v) == [kind |-> "scalar", args |-> <<>>, kwargs |-> {}, hasArgs |-> FALSE, hasKwargs |-> FALSE, val |-> v]

PList(a) == [kind |-> "list", args |-> a, kwargs |-> {}, hasArgs |-> FALSE, hasKwargs |-> FALSE, val |-> 0]

PArgs(a) == [kind |-> "dict", args |-> a, kwargs |-> {}, hasArgs |-> TRUE, hasKwargs |-> FALSE, val |-> 0]

PKwargs(k) == [kind |-> "dict", args |-> <<>>, kwargs |-> k, hasArgs |-> FALSE, hasKwargs |-> TRUE, val |-> 0]

\* A mapping with both keys.
PBoth(a, k) == [kind |-> "dict", args |-> a, kwargs |-> k, hasArgs |-> TRUE, hasKwargs |-> TRUE, val |-> 0]

\* A mapping with neither key: {"x": v}.
POther(v) == [kind |-> "dict", args |-> <<>>, kwargs |-> {}, hasArgs |-> FALSE, hasKwargs |-> FALSE, val |-> v]

PTuple(a) == [kind |-> "tuple", args |-> a, kwargs |-> {}, hasArgs |-> FALSE, hasKwargs |-> FALSE, val |-> 0]

CallById(id, p) == [has_id |-> TRUE, tool_id |-> id, has_name |-> FALSE, name |-> "", payload |-> p]

CallByName(n, p) == [has_id |-> FALSE, tool_id |-> 0, has_name |-> TRUE, name |-> n, payload |-> p]

\* The call descriptors the host threads draw their batches from: a built-in,
\* a host tool by name, the first host tool_id by number (py_double(5), or
\* py_fail(5) raising a TypeError, or no tool at all), and an id that is
\* never registered.
CallChoices ==
  { CallById(0, PScalar(3)),
    CallByName("py_double", PArgs(<<21>>)),
    CallById(PYTHON_TOOL_BASE, PScalar(5)),
    CallById(9999, PNone) }

RECURSIVE SeqsUpTo(_, _)
SeqsUpTo(S, n) ==
  IF n = 0 THEN {<<>>}
  ELSE LET shorter == SeqsUpTo(S, n - 1)
       IN  shorter \cup {Append(s, x) : s \in {t \in shorter : Len(t) = n - 1}, x \in S}

\* ------------------------------------------------------------ Optional[T]

None == [isNone |-> TRUE, v |-> <<>>]

Some(x) == [isNone |-> FALSE, v |-> x]

\* `x or []` and `x is None` on an Optional[List]
OrEmpty(x) == IF x.isNone \/ x.v = <<>> THEN <<>> ELSE x.v

\* ----------------------------------------------------------- pure helpers

\* The payload as a Python value: a number is itself, any other payload is
\* the object the descriptor holds.
Value(p) == IF p.kind = "scalar" THEN p.val ELSE p

\* A normalization that takes only the positional arguments of a mapping.
NormalizePythonPayload_ArgsOnly(p) ==
  IF p.kind = "none" THEN [args |-> <<>>, kwargs |-> {}]
  ELSE IF p.kind = "dict" /\ (p.hasArgs \/ p.hasKwargs)
    THEN [args |-> IF p.hasArgs THEN p.args ELSE <<>>, kwargs |-> {}]
  ELSE IF p.kind \in {"list", "tuple"} THEN [args |-> p.args, kwargs |-> {}]
  ELSE [args |-> <<Value(p)>>, kwargs |-> {}]

\* _normalize_python_payload(payload) -> (args, kwargs)
NormalizePythonPayload(p) ==
  IF p.kind = "none" THEN [args |-> <<>>, kwargs |-> {}]
  ELSE IF p.kind = "dict" /\ (p.hasArgs \/ p.hasKwargs)
    THEN [args |-> IF p.hasArgs THEN p.args ELSE <<>>,
          kwargs |-> IF p.hasKwargs THEN p.kwargs ELSE {}]
  ELSE IF p.kind \in {"list", "tuple"} THEN [args |-> p.args, kwargs |-> {}]
  ELSE [args |-> <<Value(p)>>, kwargs |-> {}]

\* int(payload or 0) for a call to a native tool: defined for None, for a
\* number and for an empty list, a TypeError for a mapping or a list that is
\* not empty.
NativePayloadOk(p) ==
  \/ p.kind \in {"none", "scalar"}
  \/ p.kind \in {"list", "tuple"} /\ p.args = <<>>

NativePayload(p) == IF p.kind = "scalar" THEN p.val ELSE 0

\* A lookup that falls back to tool 0 for a name it does not know.
ResolveToolId_DefaultZero(call, ids) ==
  IF call.has_id THEN [ok |-> TRUE, id |-> call.tool_id, exc |-> ""]
  ELSE IF ~call.has_name THEN [ok |-> FALSE, id |-> 0, exc |-> "ValueError"]
  ELSE IF call.name \notin DOMAIN ids THEN [ok |-> TRUE, id |-> 0, exc |-> ""]
  ELSE [ok |-> TRUE, id |-> ids[call.name], exc |-> ""]

\* _resolve_tool_id(call): the id, or the exception it raises
ResolveToolId(call, ids) ==
  IF call.has_id THEN [ok |-> TRUE, id |-> call.tool_id, exc |-> ""]
  ELSE IF ~call.has_name THEN [ok |-> FALSE, id |-> 0, exc |-> "ValueError"]
  ELSE IF call.name \notin DOMAIN ids THEN [ok |-> FALSE, id |-> 0, exc |-> "KeyError"]
  ELSE [ok |-> TRUE, id |-> ids[call.name], exc |-> ""]

\* _prepare_calls(calls): the loop over the calls, from position i on
RECURSIVE PrepareFrom(_, _, _, _, _)
PrepareFrom(cs, ids, i, prepared, payloads) ==
  IF i > Len(cs) THEN [ok |-> TRUE, exc |-> "", prepared |-> prepared, payloads |-> payloads]
  ELSE
    LET r == ResolveToolId(cs[i], ids)
    IN  IF ~r.ok THEN [ok |-> FALSE, exc |-> r.exc, prepared |-> <<>>, payloads |-> <<>>]
        ELSE IF r.id >= PYTHON_TOOL_BASE
          THEN PrepareFrom(cs, ids, i + 1,
                 Append(prepared, [tool_id |-> r.id, payload |-> Len(payloads)]),
                 Append(payloads, NormalizePythonPayload(cs[i].payload)))
        ELSE IF ~NativePayloadOk(cs[i].payload)
          THEN [ok |-> FALSE, exc |-> "TypeError", prepared |-> <<>>, payloads |-> <<>>]
        ELSE PrepareFrom(cs, ids, i + 1,
               Append(prepared, [tool_id |-> r.id, payload |-> NativePayload(cs[i].payload)]),
               payloads)

PrepareCalls(cs, ids) == PrepareFrom(cs, ids, 1, <<>>, <<>>)

\* encode_calls(calls): struct "<HHxxxxQ" packs tool_id as an unsigned 16-bit
\* field and payload as an unsigned 64-bit one, and raises for a value that
\* does not fit; the records keep the input order, reserved is 0.
EncodeOk(prepared) ==
  \A i \in 1..Len(prepared) :
    /\ prepared[i].tool_id >= 0 /\ prepared[i].tool_id <= U16_MAX
    /\ prepared[i].payload >= 0

EncodeCalls(prepared) ==
  [count |-> Len(prepared),
   recs |-> [i \in 1..Len(prepared) |->
               [tool_id |-> prepared[i].tool_id, reserved |-> 0, payload |-> prepared[i].payload]]]

\* struct little-endian packing of v into n bytes ("<").
RECURSIVE LE(_, _)
LE(v, n) == IF n = 0 THEN <<>> ELSE <<v % 256>> \o LE(v \div 256, n - 1)

\* The unsigned number in the n bytes of b that start at position s.
RECURSIVE Unsigned(_, _, _)
Unsigned(b, s, n) == IF n = 0 THEN 0 ELSE b[s] + 256 * Unsigned(b, s + 1, n - 1)

\* _HEADER.pack_into(buf, 0, count, 0): "<II"
PackHeader(count) == LE(count, 4) \o LE(0, 4)

\* A record packed without the four pad bytes ("<HHQ").
PackCall_NoPad(call) == LE(call.tool_id, 2) \o LE(0, 2) \o LE(call.payload, 8)

\* _CALL.pack_into(buf, offset, tool_id, 0, payload): "<HHxxxxQ"
PackCall(call) == LE(call.tool_id, 2) \o LE(0, 2) \o <<0, 0, 0, 0>> \o LE(call.payload, 8)

RECURSIVE PackFrom(_, _)
PackFrom(prepared, i) ==
  IF i > Len(prepared) THEN <<>> ELSE PackCall(prepared[i]) \o PackFrom(prepared, i + 1)

\* encode_calls(calls), the bytes of EncodedBatch.buffer (the buffer is
\* created zero-filled with total_size bytes, lines 83-84).
PackCalls(prepared) == PackHeader(Len(prepared)) \o PackFrom(prepared, 1)

\* A decoder that walks the buffer from its end.
DecodeResults_Reversed(buffer) ==
  IF buffer.null \/ buffer.count = 0 THEN <<>>
  ELSE [i \in 1..buffer.count |->
          [tool_id |-> buffer.recs[buffer.count + 1 - i].tool_id,
           status |-> buffer.recs[buffer.count + 1 - i].status,
           output |-> buffer.recs[buffer.count + 1 - i].output,
           error_code |-> buffer.recs[buffer.count + 1 - i].error_code]]

\* A decoder that tests the count only and reads through a null pointer.
DecodeResults_NoNullTest(buffer) ==
  IF buffer.count = 0 THEN <<>>
  ELSE [i \in 1..buffer.count |->
          [tool_id |-> buffer.recs[i].tool_id, status |-> buffer.recs[i].status,
           output |-> buffer.recs[i].output, error_code |-> buffer.recs[i].error_code]]

\* decode_results(buffer): one ToolExecution per record, in buffer order;
\* the empty list for a null pointer or a count of 0.
DecodeResults(buffer) ==
  IF buffer.null \/ buffer.count = 0 THEN <<>>
  ELSE [i \in 1..buffer.count |->
          [tool_id |-> buffer.recs[i].tool_id, status |-> buffer.recs[i].status,
           output |-> buffer.recs[i].output, error_code |-> buffer.recs[i].error_code]]

\* decode_results returns at line 107 before it touches the buffer when the
\* pointer is null or the count is 0: only a buffer with records can make it
\* raise.
DecodeCanRaise(buffer) == ~buffer.null /\ buffer.count > 0

\* func(*args, **kwargs) for the registered implementations: the value
\* returned, or the exception raised (a TypeError when the arguments do not
\* bind to the signature).
Apply(impl, args, kwargs) ==
  IF impl = "double" THEN
    IF Len(args) = 1 /\ kwargs = {} THEN [kind |-> "value", val |-> 2 * args[1]]
    ELSE IF Len(args) = 0 /\ Cardinality(kwargs) = 1 /\ (\E kv \in kwargs : kv[1] = "value")
      THEN [kind |-> "value", val |-> 2 * (CHOOSE kv \in kwargs : TRUE)[2]]
    ELSE [kind |-> "exc", val |-> TYPE_ERROR]
  ELSE IF Len(args) = 0 /\ kwargs = {} THEN [kind |-> "exc", val |-> TOOL_ERROR]
  ELSE [kind |-> "exc", val |-> TYPE_ERROR]

\* The result record a handler writes through result_ptr.
Result(id, status, output, code) ==
  [tool_id |-> id, status |-> status, output |-> output, error_code |-> code]

\* A handler that reports a missing implementation as a bad slot.
UnknownToolResult_BadSlot(id) == Result(id, 1, 0, ERR_BAD_SLOT)

\* _handle_python_call, lines 168-172: no implementation under tool_id.
UnknownToolResult(id) == Result(id, 1, 0, ERR_UNKNOWN_TOOL)

\* A trampoline that reports a token it does not know as a missing tool.
StaleContextResult_UnknownTool(id) == Result(id, 1, 0, ERR_UNKNOWN_TOOL)

\* _python_callback_trampoline, lines 249-253: the token is not in
\* _RUNTIME_REGISTRY.
StaleContextResult(id) == Result(id, 1, 0, ERR_STALE_CONTEXT)

\* The int the trampoline returns to the core: 0 at line 196 after the
\* success record, -1 at lines 172, 183, 206 and 253 after a failure record.
TrampolineReturn(r) == IF r.status = 0 THEN 0 ELSE 0 - 1

\* _handle_python_call, lines 180-183: no active slot table, or no slot at
\* payload_index.
BadSlotResult(id) == Result(id, 1, 0, ERR_BAD_SLOT)

\* A handler whose except clause leaves the output field at 0.
HostResult_NoIndex(id, out, result_index) ==
  IF out.kind = "value" THEN Result(id, 0, result_index, 0)
  ELSE Result(id, 1, 0, ERR_HOST_RAISED)

\* A handler whose except clause reports success.
HostResult_ExcAsSuccess(id, out, result_index) == Result(id, 0, result_index, 0)

\* _handle_python_call, lines 193-196 and 203-206: the record written after
\* the implementation returned (out is a value) or raised (out is an exception)
\* and its outcome was stored at result_index.
HostResult(id, out, result_index) ==
  IF out.kind = "value" THEN Result(id, 0, result_index, 0)
  ELSE Result(id, 1, result_index, ERR_HOST_RAISED)

\* The native dispatch core's built-in tools: 0 sleeps, 1 spins.
NativeTable == {0, 1}

\* A call the core runs itself: a built-in succeeds (its output modelled as
\* the payload it was given), an id that is in no table is an unknown tool.
NativeRun(call) ==
  IF call.tool_id \in NativeTable THEN Result(call.tool_id, 0, call.payload, 0)
  ELSE Result(call.tool_id, 1, 0, ERR_UNKNOWN_TOOL)

\* The result buffer the core hands back: the records in submission order.
ResultBuffer(recs) == [null |-> FALSE, count |-> Len(recs), recs |-> recs]

\* self._tool_names.get(tool_id, f"tool:{tool_id}")
ToolName(names, id) == IF id \in DOMAIN names THEN names[id] ELSE "tool:" \o ToString(id)

NoOutput == [kind |-> "none", val |-> 0]

\* An output resolution that ignores the index the record carries.
ResolveOutput_FirstEntry(entry, store) ==
  IF entry.tool_id >= PYTHON_TOOL_BASE
    THEN IF Len(store) > 0 THEN store[1] ELSE NoOutput
    ELSE IF entry.status = 0 THEN [kind |-> "value", val |-> entry.output] ELSE NoOutput

\* An output resolution that looks every successful output up in the table.
ResolveOutput_AlwaysLookup(entry, store) ==
  IF entry.output < Len(store) THEN store[entry.output + 1] ELSE NoOutput

\* The output of one ExecutionResult (runtime.py lines 98-107).
ResolveOutput(entry, store) ==
  IF entry.status = 0 THEN
    IF entry.tool_id >= PYTHON_TOOL_BASE
      THEN IF entry.output < Len(store) THEN store[entry.output + 1] ELSE NoOutput
      ELSE [kind |-> "value", val |-> entry.output]
  ELSE
    IF entry.tool_id >= PYTHON_TOOL_BASE /\ entry.output < Len(store)
      THEN store[entry.output + 1]
      ELSE NoOutput

\* The loop of execute() that builds final_results.
ResolveResults(raw, store, names) ==
  [i \in 1..Len(raw) |->
     [name |-> ToolName(names, raw[i].tool_id), tool_id |-> raw[i].tool_id,
      status |-> raw[i].status, output |-> ResolveOutput(raw[i], store),
      error_code |-> raw[i].error_code]]

\* An aggregate error built from the last failing result.
FirstError_Last(final) ==
  LET bad == {i \in 1..Len(final) : final[i].status # 0}
  IN  final[CHOOSE i \in bad : \A j \in bad : i >= j]

\* errors = [res for res in final_results if res.status != 0]; errors[0]
FirstError(final) ==
  LET bad == {i \in 1..Len(final) : final[i].status # 0}
  IN  final[CHOOSE i \in bad : \A j \in bad : i <= j]

HasError(final) == \E i \in 1..Len(final) : final[i].status # 0

NoError == [kind |-> "none", name |-> "", tool_id |-> 0, error_code |-> 0]

\* --------------------------------------------------------------- variables

VARIABLES
  tool_ids,         \* self._tool_ids: name -> tool_id
  tool_names,       \* self._tool_names: tool_id -> name
  python_tools,     \* self._python_tools: tool_id -> implementation
  next_tool_id,     \* self._next_tool_id
  active_payloads,  \* self._active_payloads: Optional[List[(args, kwargs)]]
  active_results,   \* self._active_results: Optional[List[Any]]
  registry,         \* _RUNTIME_REGISTRY: the tokens that resolve to the runtime
  pc,               \* per host thread: where its execute() stands
  calls,            \* per host thread: the call descriptors passed to execute()
  batch,            \* per host thread: the encoded batch handed to the core
  own_payloads,     \* per host thread: the slot table _prepare_calls built
  cst,              \* per host thread, per call: pending / running / done
  running,          \* per host thread, per call: func and arguments the handler fetched
  records,          \* per host thread, per call: the result record of the call
  raw_results,      \* per host thread: decode_results(buffer)
  results_store,    \* per host thread: the output table execute() took over
  final_results,    \* per host thread: the ExecutionResult list
  error,            \* per host thread: what execute() raised
  nexec,            \* per host thread: calls of aether_execute
  nfree,            \* per host thread: calls of aether_free_buffer
  first_done,       \* per host thread: position of the call that completed first (0: none yet)
  overlapped,       \* per host thread: another execute() was in flight during this one
  submitted,        \* number of calls submitted so far
  life,             \* the AgentRuntime object: new / ready / failed (__init__ raised)
  runtime,          \* self._runtime: "unset" (no attribute) or the native handle "live"
  ncreate,          \* calls of aether_create_runtime
  ndestroy,         \* calls of aether_destroy_runtime
  reg_log,          \* the registrations made, in order: name, func and the id assigned
  lock,             \* _active_lock: the call whose handler holds it, or NoHolder
  rts,              \* two AgentRuntime objects of one process, each with its own tables
  mreg,             \* _RUNTIME_REGISTRY of that process: context token -> object
  op_in,            \* codec harness: the value handed to a helper
  op_out,           \* codec harness: what the helper returned
  wide,             \* a runtime with an id field of IdWidth bits: counter, ids, last encoding
  db_traces,        \* rag_traces: trace id -> the committed row (faithfulness RAGAS will give, latency_ms)
  to_queue,         \* traces answered with 202 whose background task has not run yet
  queue,            \* Redis list evaluation_queue: head is the LPUSH end, tail the BRPOP end
  db_evals,         \* evaluations: trace id -> number of rows with that trace_id
  db_alerts,        \* alerts of the project: rows per alert type (HALLUCINATION per trace)
  alert_cfg,        \* alert_configs: the row of the project, if there is one
  wk,               \* per worker process: where its loop stands and the trace of its job
  npush             \* jobs pushed by somebody other than ingest_trace

regVars == <<tool_ids, tool_names, python_tools, next_tool_id, registry>>

tableVars == <<active_payloads, active_results>>

callVars == <<cst, running, records, first_done>>

endVars == <<raw_results, results_store, final_results, error, nfree>>

startVars == <<pc, calls, batch, own_payloads, nexec, overlapped, submitted>>

lifeVars == <<life, runtime, ncreate, ndestroy>>

codecVars == <<op_in, op_out>>

\* The variables of the finer-grained specifications.
apiVars == <<db_traces, to_queue, queue, db_evals, db_alerts, alert_cfg, wk, npush>>

lateVars == <<wide, apiVars>>

extVars == <<lock, rts, mreg, lateVars>>

auxVars == <<lifeVars, reg_log, codecVars, extVars>>

vars == <<regVars, tableVars, callVars, endVars, startVars, auxVars>>

\* -------------------------------------------------------------------- Init

NoCall == [func |-> "", args |-> <<>>, kwargs |-> {}]

NoRecord == Result(0, 0, 0, 0)

NoBuffer == [count |-> 0, recs |-> <<>>]

\* The runtime objects of the two-runtime specification.
Objects == {"A", "B"}

\* An AgentRuntime before __init__ ran, and its thread before execute().
NewRuntime ==
  [life |-> "new", token |-> 0,
   python_tools |-> [i \in {} |-> ""], next_tool_id |-> PYTHON_TOOL_BASE,
   active_payloads |-> None, active_results |-> None,
   pc |-> "idle", batch |-> <<>>, cst |-> <<>>, records |-> <<>>, invoked |-> <<>>,
   final |-> <<>>]

\* threading.Lock(), line 46: nobody holds it.
NoHolder == <<"none", 0>>

\* The codec harness holds nothing.
NoOp == [kind |-> "none"]

\* The traces the clients post and the worker processes that run.
Traces == {"t1", "t2"}

Workers == {"w1", "w2"}

\* No AlertConfig row for the project.
NoAlertConfig ==
  [isNone |-> TRUE, slack_enabled |-> FALSE, hallucination_threshold |-> 0,
   daily_cost_budget_usd |-> 0, latency_p95_threshold_ms |-> 0]

\* A worker blocked in brpop, line 67.
IdleWorker == [pc |-> "idle", trace |-> ""]

\* __init__, lines 36-38, of the runtime with the narrow id field: no tool
\* registered, the counter at the host-tool base, nothing encoded yet.
NewWide == [next_tool_id |-> WIDE_TOOL_BASE, tool_ids |-> [n \in {} |-> 0], encoded |-> "none"]

\* __init__, lines 36-46, and the locals of the host threads before their
\* execute().
Fresh ==
  /\ tool_ids = [n \in {"sleep_ms", "cpu_spin"} |-> IF n = "sleep_ms" THEN 0 ELSE 1]
  /\ tool_names = [i \in {0, 1} |-> IF i = 0 THEN "sleep_ms" ELSE "cpu_spin"]
  /\ python_tools = [i \in {} |-> ""]
  /\ next_tool_id = PYTHON_TOOL_BASE
  /\ active_payloads = None
  /\ active_results = None
  /\ pc = [h \in Threads |-> "idle"]
  /\ calls = [h \in Threads |-> <<>>]
  /\ batch = [h \in Threads |-> NoBuffer]
  /\ own_payloads = [h \in Threads |-> <<>>]
  /\ cst = [h \in Threads |-> <<>>]
  /\ running = [h \in Threads |-> <<>>]
  /\ records = [h \in Threads |-> <<>>]
  /\ raw_results = [h \in Threads |-> <<>>]
  /\ results_store = [h \in Threads |-> <<>>]
  /\ final_results = [h \in Threads |-> <<>>]
  /\ error = [h \in Threads |-> NoError]
  /\ nexec = [h \in Threads |-> 0]
  /\ nfree = [h \in Threads |-> 0]
  /\ first_done = [h \in Threads |-> 0]
  /\ overlapped = [h \in Threads |-> FALSE]
  /\ submitted = 0
  /\ ndestroy = 0
  /\ reg_log = <<>>
  /\ lock = NoHolder
  /\ rts = [o \in Objects |-> NewRuntime]
  /\ mreg = [t \in {} |-> ""]
  /\ wide = NewWide
  /\ db_traces = [t \in {} |-> 0]
  /\ to_queue = {}
  /\ queue = <<>>
  /\ db_evals = [t \in Traces |-> 0]
  /\ db_alerts = [hallucination |-> [t \in Traces |-> 0], cost_spike |-> 0, high_latency |-> 0]
  /\ alert_cfg = NoAlertConfig
  /\ wk = [w \in Workers |-> IdleWorker]
  /\ npush = 0

\* The state after a construction that succeeded.
Init ==
  /\ Fresh
  /\ registry = {Token}
  /\ life = "ready"
  /\ runtime = "live"
  /\ ncreate = 1
  /\ op_in = NoOp
  /\ op_out = NoOp

\* ----------------------------------------------------------------- actions

\* An execute() that has published its tables and not yet taken them down.
InFlight(h) == pc[h] = "native"

\* A counter that hands the same id out again.
NextToolId_Stuck(id) == id

\* self._next_tool_id += 1
NextToolId(id) == id + 1

\* h is the next thread to call execute().
NextCaller(h) ==
  \E k \in 1..Len(ThreadOrder) :
    /\ ThreadOrder[k] = h
    /\ pc[h] = "idle"
    /\ \A j \in 1..(k - 1) : pc[ThreadOrder[j]] # "idle"

\* A registration that rebinds the id a name already has.
Register_Replace(name, func) ==
  IF name \in DOMAIN tool_ids /\ tool_ids[name] \in DOMAIN python_tools
    THEN /\ python_tools' = [python_tools EXCEPT ![tool_ids[name]] = func]
         /\ next_tool_id' = NextToolId(next_tool_id)
         /\ UNCHANGED <<tool_ids, tool_names, registry, tableVars, callVars, endVars,
                        startVars, lifeVars, codecVars, extVars>>
    ELSE /\ tool_ids' = [n \in DOMAIN tool_ids \cup {name} |->
                           IF n = name THEN next_tool_id ELSE tool_ids[n]]
         /\ tool_names' = [i \in DOMAIN tool_names \cup {next_tool_id} |->
                             IF i = next_tool_id THEN name ELSE tool_names[i]]
         /\ python_tools' = [i \in DOMAIN python_tools \cup {next_tool_id} |->
                               IF i = next_tool_id THEN func ELSE python_tools[i]]
         /\ next_tool_id' = NextToolId(next_tool_id)
         /\ UNCHANGED <<registry, tableVars, callVars, endVars, startVars, lifeVars, codecVars, extVars>>

\* The decorator of tool(), lines 63-69: take the next id, advance the
\* counter, record the name, the id and the implementation.
Register(name, func) ==
  /\ tool_ids' = [n \in DOMAIN tool_ids \cup {name} |->
                    IF n = name THEN next_tool_id ELSE tool_ids[n]]
  /\ tool_names' = [i \in DOMAIN tool_names \cup {next_tool_id} |->
                      IF i = next_tool_id THEN name ELSE tool_names[i]]
  /\ python_tools' = [i \in DOMAIN python_tools \cup {next_tool_id} |->
                        IF i = next_tool_id THEN func ELSE python_tools[i]]
  /\ next_tool_id' = NextToolId(next_tool_id)
  /\ UNCHANGED <<registry, tableVars, callVars, endVars, startVars, lifeVars, codecVars, extVars>>

\* AgentRuntime.tool(name)(func)
RegisterTool(name, func) ==
  /\ next_tool_id < PYTHON_TOOL_BASE + MaxTools
  /\ Register(name, func)
  /\ UNCHANGED reg_log

\* execute(), lines 77-78 raising: _prepare_calls or encode_calls raises and
\* nothing has been published or submitted.
ExecuteRejected(h, cs) ==
  LET p == PrepareCalls(cs, tool_ids)
  IN  /\ NextCaller(h)
      /\ submitted + Len(cs) <= MaxSubmitted
      /\ ~p.ok \/ ~EncodeOk(p.prepared)
      /\ pc' = [pc EXCEPT ![h] = "raised"]
      /\ calls' = [calls EXCEPT ![h] = cs]
      /\ error' = [error EXCEPT ![h] =
           [kind |-> IF p.ok THEN "struct.error" ELSE p.exc,
            name |-> "", tool_id |-> 0, error_code |-> 0]]
      /\ submitted' = submitted + Len(cs)
      /\ UNCHANGED <<regVars, tableVars, callVars, batch, own_payloads, nexec, overlapped,
                     raw_results, results_store, final_results, nfree, auxVars>>

\* What `with self._active_lock` at lines 80-82 stores.
PublishedPayloads(payloads) == Some(payloads)

\* An execute() that keeps an output table it finds published.
PublishedResults_Kept == IF active_results.isNone THEN Some(<<>>) ELSE active_results

PublishedResults == Some(<<>>)

\* execute(), lines 77-84: prepare and encode the calls, publish the slot
\* table and an empty output table under the lock, and call aether_execute.
ExecuteBegin(h, cs) ==
  LET p == PrepareCalls(cs, tool_ids)
      others == {g \in Threads \ {h} : InFlight(g)}
  IN  /\ NextCaller(h)
      /\ submitted + Len(cs) <= MaxSubmitted
      /\ p.ok /\ EncodeOk(p.prepared)
      /\ active_payloads' = PublishedPayloads(p.payloads)
      /\ active_results' = PublishedResults
      /\ pc' = [pc EXCEPT ![h] = "native"]
      /\ calls' = [calls EXCEPT ![h] = cs]
      /\ batch' = [batch EXCEPT ![h] = EncodeCalls(p.prepared)]
      /\ own_payloads' = [own_payloads EXCEPT ![h] = p.payloads]
      /\ nexec' = [nexec EXCEPT ![h] = @ + 1]
      /\ cst' = [cst EXCEPT ![h] = [i \in 1..Len(cs) |-> "pending"]]
      /\ running' = [running EXCEPT ![h] = [i \in 1..Len(cs) |-> NoCall]]
      /\ records' = [records EXCEPT ![h] = [i \in 1..Len(cs) |-> NoRecord]]
      /\ overlapped' = [g \in Threads |->
                          IF g = h THEN others # {}
                          ELSE IF g \in others THEN TRUE ELSE overlapped[g]]
      /\ submitted' = submitted + Len(cs)
      /\ UNCHANGED <<regVars, first_done, endVars, auxVars>>

\* The core finishes call i of h's batch with record r.
Complete(h, i, r) ==
  /\ records' = [records EXCEPT ![h][i] = r]
  /\ cst' = [cst EXCEPT ![h][i] = "done"]
  /\ first_done' = [first_done EXCEPT ![h] = IF @ = 0 THEN i ELSE @]

\* A worker of the core runs a call whose tool_id is below the host base.
NativeCall(h, i) ==
  /\ pc[h] = "native"
  /\ i \in DOMAIN cst[h]
  /\ cst[h][i] = "pending"
  /\ batch[h].recs[i].tool_id < PYTHON_TOOL_BASE
  /\ Complete(h, i, NativeRun(batch[h].recs[i]))
  /\ UNCHANGED <<regVars, tableVars, running, endVars, startVars, auxVars>>

\* A slot read without the test of lines 175-179: a call without a slot is
\* run with no arguments.
SlotLookup_Unchecked(payload_index) ==
  IF active_payloads.isNone \/ payload_index < 0 \/ payload_index >= Len(active_payloads.v)
    THEN [ok |-> TRUE, args |-> <<>>, kwargs |-> {}]
    ELSE [ok |-> TRUE, args |-> active_payloads.v[payload_index + 1].args,
          kwargs |-> active_payloads.v[payload_index + 1].kwargs]

\* The slot the handler reads under the lock (lines 174-184): the arguments
\* stored at payload_index of the active slot table, if there is one.
SlotLookup(payload_index) ==
  IF active_payloads.isNone \/ payload_index < 0 \/ payload_index >= Len(active_payloads.v)
    THEN [ok |-> FALSE, args |-> <<>>, kwargs |-> {}]
    ELSE [ok |-> TRUE, args |-> active_payloads.v[payload_index + 1].args,
          kwargs |-> active_payloads.v[payload_index + 1].kwargs]

\* A worker routes a call at or above the host base through the trampoline
\* (lines 242-254) into _handle_python_call, lines 163-184: the token is
\* resolved, the implementation looked up, the slot read under the lock.
HostCallBegin(h, i) ==
  LET call == batch[h].recs[i]
      slot == SlotLookup(call.payload)
  IN  /\ pc[h] = "native"
      /\ i \in DOMAIN cst[h]
      /\ cst[h][i] = "pending"
      /\ call.tool_id >= PYTHON_TOOL_BASE
      /\ IF Token \notin registry
           THEN /\ Complete(h, i, StaleContextResult(call.tool_id))
                /\ UNCHANGED running
         ELSE IF call.tool_id \notin DOMAIN python_tools
           THEN /\ Complete(h, i, UnknownToolResult(call.tool_id))
                /\ UNCHANGED running
         ELSE IF ~slot.ok
           THEN /\ Complete(h, i, BadSlotResult(call.tool_id))
                /\ UNCHANGED running
         ELSE /\ running' = [running EXCEPT ![h][i] =
                   [func |-> python_tools[call.tool_id], args |-> slot.args, kwargs |-> slot.kwargs]]
              /\ cst' = [cst EXCEPT ![h][i] = "running"]
              /\ UNCHANGED <<records, first_done>>
      /\ UNCHANGED <<regVars, tableVars, endVars, startVars, auxVars>>

\* A handler that stores its outcome in a list of its own.
AppendOutput_Fresh(out) == Some(<<out>>)

\* The output table after the handler appended `out` under the lock
\* (lines 188-191 and 198-201).
AppendOutput(out) == Some(Append(IF active_results.isNone THEN <<>> ELSE active_results.v, out))

\* A handler that lets the exception of the implementation escape into the
\* core: it writes no record and the call never completes.
HostCallEnd_Escapes(h, i) ==
  LET call == batch[h].recs[i]
      r == running[h][i]
      out == Apply(r.func, r.args, r.kwargs)
      table == AppendOutput(out)
      result_index == Len(table.v) - 1
  IN  /\ pc[h] = "native"
      /\ i \in DOMAIN cst[h]
      /\ cst[h][i] = "running"
      /\ out.kind = "value"
      /\ active_results' = table
      /\ Complete(h, i, HostResult(call.tool_id, out, result_index))
      /\ UNCHANGED <<regVars, active_payloads, running, endVars, startVars, auxVars>>

\* _handle_python_call, lines 186-206: the implementation returns or raises,
\* its outcome is appended to the active output table under the lock and the
\* index of the new entry is written into the result record.
HostCallEnd(h, i) ==
  LET call == batch[h].recs[i]
      r == running[h][i]
      out == Apply(r.func, r.args, r.kwargs)
      table == AppendOutput(out)
      result_index == Len(table.v) - 1
  IN  /\ pc[h] = "native"
      /\ i \in DOMAIN cst[h]
      /\ cst[h][i] = "running"
      /\ active_results' = table
      /\ Complete(h, i, HostResult(call.tool_id, out, result_index))
      /\ UNCHANGED <<regVars, active_payloads, running, endVars, startVars, auxVars>>

\* A release that runs only after a successful decode (no finally clause).
Freed_NoFinally(n, decoded) == IF decoded THEN n + 1 ELSE n

\* Number of aether_free_buffer calls after the try/finally of lines 85-88.
Freed(n, decoded) == n + 1

\* execute(), lines 84-126: aether_execute returns the result buffer once
\* every call of the batch is done; decode_results runs (and may raise, as a
\* decoder under fault injection does) and the finally clause frees the
\* buffer. After a decode the output table is taken over and the active
\* tables are cleared under the lock, every record's output is resolved, and
\* execute() raises for the first record with a nonzero status, else returns
\* the list. A decode that raises leaves execute() at line 86: the tables
\* stay published.
ExecuteFinish(h, decodeRaises) ==
  LET buffer == ResultBuffer(records[h])
      raw == DecodeResults(buffer)
      store == OrEmpty(active_results)
      final == ResolveResults(raw, store, tool_names)
  IN  /\ pc[h] = "native"
      /\ \A i \in DOMAIN cst[h] : cst[h][i] = "done"
      /\ decodeRaises => DecodeCanRaise(buffer)
      /\ nfree' = [nfree EXCEPT ![h] = Freed(@, ~decodeRaises)]
      /\ IF decodeRaises
           THEN /\ pc' = [pc EXCEPT ![h] = "raised"]
                /\ error' = [error EXCEPT ![h] =
                     [kind |-> "DecodeError", name |-> "", tool_id |-> 0, error_code |-> 0]]
                /\ UNCHANGED <<tableVars, raw_results, results_store, final_results>>
           ELSE /\ raw_results' = [raw_results EXCEPT ![h] = raw]
                /\ results_store' = [results_store EXCEPT ![h] = store]
                /\ active_payloads' = None
                /\ active_results' = None
                /\ final_results' = [final_results EXCEPT ![h] = final]
                /\ IF HasError(final)
                     THEN /\ pc' = [pc EXCEPT ![h] = "raised"]
                          /\ error' = [error EXCEPT ![h] =
                               [kind |-> "RuntimeError", name |-> FirstError(final).name,
                                tool_id |-> FirstError(final).tool_id,
                                error_code |-> FirstError(final).error_code]]
                     ELSE /\ pc' = [pc EXCEPT ![h] = "returned"]
                          /\ UNCHANGED error
      /\ UNCHANGED <<regVars, callVars, calls, batch, own_payloads, nexec, overlapped, submitted,
                     auxVars>>

Batches == SeqsUpTo(CallChoices, MaxSubmitted)

Next ==
  \/ \E c \in RegChoices : RegisterTool(c[1], c[2])
  \/ \E h \in Threads, cs \in Batches : ExecuteRejected(h, cs)
  \/ \E h \in Threads, cs \in Batches : ExecuteBegin(h, cs)
  \/ \E h \in Threads, i \in 1..MaxSubmitted : NativeCall(h, i)
  \/ \E h \in Threads, i \in 1..MaxSubmitted : HostCallBegin(h, i)
  \/ \E h \in Threads, i \in 1..MaxSubmitted : HostCallEnd(h, i)
  \/ \E h \in Threads, f \in BOOLEAN : ExecuteFinish(h, f)

Spec == Init /\ [][Next]_vars

\* ---------------------------------------------------------------- progress

\* The one thread that uses the runtime in the single-thread specifications.
User == ThreadOrder[1]

\* A worker of the core takes a step on a call of h's batch.
CoreStep(h) ==
  \E i \in 1..MaxSubmitted : NativeCall(h, i) \/ HostCallBegin(h, i) \/ HostCallEnd(h, i)

NextLive ==
  \/ \E c \in RegChoices : RegisterTool(c[1], c[2])
  \/ \E cs \in Batches : ExecuteRejected(User, cs)
  \/ \E cs \in Batches : ExecuteBegin(User, cs)
  \/ \E i \in 1..MaxSubmitted : NativeCall(User, i)
  \/ \E i \in 1..MaxSubmitted : HostCallBegin(User, i)
  \/ \E i \in 1..MaxSubmitted : HostCallEnd(User, i)
  \/ \E f \in BOOLEAN : ExecuteFinish(User, f)

\* The workers of the core keep running the calls of a submitted batch, the
\* implementations called terminate, and the thread inside execute() goes on
\* once aether_execute has returned.
LiveSpec ==
  /\ Init
  /\ [][NextLive]_vars
  /\ WF_vars(CoreStep(User))
  /\ WF_vars(\E f \in BOOLEAN : ExecuteFinish(User, f))

\* -------------------------------------------------------------------- lock

\* A slot read that returns into the implementation with the lock still held.
SlotReadRelease_Held(holder) == holder

\* The end of the `with self._active_lock` block at line 184, before the
\* implementation is called at line 187.
SlotReadRelease(holder) == NoHolder

\* _python_callback_trampoline and _handle_python_call, lines 248 and
\* 163-174: the token is resolved, the implementation looked up, and the
\* handler takes the lock.
HandlerEnter(h, i) ==
  LET call == batch[h].recs[i]
  IN  /\ pc[h] = "native"
      /\ i \in DOMAIN cst[h]
      /\ cst[h][i] = "pending"
      /\ call.tool_id >= PYTHON_TOOL_BASE
      /\ IF Token \notin registry
           THEN /\ Complete(h, i, StaleContextResult(call.tool_id))
                /\ UNCHANGED lock
         ELSE IF call.tool_id \notin DOMAIN python_tools
           THEN /\ Complete(h, i, UnknownToolResult(call.tool_id))
                /\ UNCHANGED lock
         ELSE /\ lock = NoHolder
              /\ lock' = <<h, i>>
              /\ cst' = [cst EXCEPT ![h][i] = "reading"]
              /\ UNCHANGED <<records, first_done>>
      /\ UNCHANGED <<regVars, tableVars, running, endVars, startVars, lifeVars, reg_log,
                     codecVars, rts, mreg, lateVars>>

\* _handle_python_call, lines 175-184, inside the lock: the slot is read,
\* or -400 is written, and the lock is released.
HandlerReadSlot(h, i) ==
  LET call == batch[h].recs[i]
      slot == SlotLookup(call.payload)
  IN  /\ pc[h] = "native"
      /\ i \in DOMAIN cst[h]
      /\ cst[h][i] = "reading"
      /\ IF ~slot.ok
           THEN /\ Complete(h, i, BadSlotResult(call.tool_id))
                /\ lock' = NoHolder
                /\ UNCHANGED running
           ELSE /\ running' = [running EXCEPT ![h][i] =
                     [func |-> python_tools[call.tool_id], args |-> slot.args,
                      kwargs |-> slot.kwargs]]
                /\ cst' = [cst EXCEPT ![h][i] = "running"]
                /\ lock' = SlotReadRelease(<<h, i>>)
                /\ UNCHANGED <<records, first_done>>
      /\ UNCHANGED <<regVars, tableVars, endVars, startVars, lifeVars, reg_log, codecVars, rts, mreg, lateVars>>

\* Line 187: func(*args, **kwargs) returns or raises, after as long as it
\* takes.
FuncReturn(h, i) ==
  /\ pc[h] = "native"
  /\ i \in DOMAIN cst[h]
  /\ cst[h][i] = "running"
  /\ cst' = [cst EXCEPT ![h][i] = "returned"]
  /\ UNCHANGED <<regVars, tableVars, running, records, first_done, endVars, startVars,
                 auxVars>>

\* Lines 188 and 198: the handler takes the lock to store the outcome.
HandlerStoreAcquire(h, i) ==
  /\ pc[h] = "native"
  /\ i \in DOMAIN cst[h]
  /\ cst[h][i] = "returned"
  /\ lock = NoHolder
  /\ lock' = <<h, i>>
  /\ cst' = [cst EXCEPT ![h][i] = "storing"]
  /\ UNCHANGED <<regVars, tableVars, running, records, first_done, endVars, startVars,
                 lifeVars, reg_log, codecVars, rts, mreg, lateVars>>

\* Lines 189-196 and 199-206: the outcome is appended inside the lock, the
\* lock released and the record written.
HandlerStore(h, i) ==
  LET call == batch[h].recs[i]
      r == running[h][i]
      out == Apply(r.func, r.args, r.kwargs)
      table == AppendOutput(out)
      result_index == Len(table.v) - 1
  IN  /\ pc[h] = "native"
      /\ i \in DOMAIN cst[h]
      /\ cst[h][i] = "storing"
      /\ active_results' = table
      /\ lock' = NoHolder
      /\ Complete(h, i, HostResult(call.tool_id, out, result_index))
      /\ UNCHANGED <<regVars, active_payloads, running, endVars, startVars, lifeVars, reg_log,
                     codecVars, rts, mreg, lateVars>>

\* The steps of a handler outside the implementation it calls.
HandlerStep(h) ==
  \E i \in 1..MaxSubmitted :
    \/ HandlerEnter(h, i)
    \/ HandlerReadSlot(h, i)
    \/ HandlerStoreAcquire(h, i)
    \/ HandlerStore(h, i)

NextLock ==
  \/ \E c \in RegChoices : RegisterTool(c[1], c[2])
  \/ \E cs \in Batches : lock = NoHolder /\ ExecuteBegin(User, cs)
  \/ \E i \in 1..MaxSubmitted : NativeCall(User, i)
  \/ \E i \in 1..MaxSubmitted : HandlerEnter(User, i)
  \/ \E i \in 1..MaxSubmitted : HandlerReadSlot(User, i)
  \/ \E i \in 1..MaxSubmitted : FuncReturn(User, i)
  \/ \E i \in 1..MaxSubmitted : HandlerStoreAcquire(User, i)
  \/ \E i \in 1..MaxSubmitted : HandlerStore(User, i)
  \/ \E f \in BOOLEAN : lock = NoHolder /\ ExecuteFinish(User, f)

\* One execute() at a time, the handler of every host call in the steps
\* between which the lock changes hands. The handlers keep going; an
\* implementation may stay inside line 187 for ever.
LockSpec ==
  /\ Init
  /\ [][NextLock]_vars
  /\ WF_vars(HandlerStep(User))

\* ------------------------------------------------------------ two runtimes

\* self._context_token = id(self): distinct for objects alive together.
TokenOf(o) == IF o = "A" THEN 1 ELSE 2

\* The implementation each runtime registers as its first tool: both tools
\* get tool_id 1000, each in its own runtime.
ImplOf(o) == IF o = "A" THEN "double" ELSE "fail"

\* The calls the two hosts submit, by id: the first host tool with the
\* argument 5, and with no argument.
MultiCalls == {CallById(PYTHON_TOOL_BASE, PScalar(5)), CallById(PYTHON_TOOL_BASE, PNone)}

MultiBatches == SeqsUpTo(MultiCalls, MaxLen) \ {<<>>}

\* A trampoline bound to the runtime that was constructed last.
RegistryGet_Latest(token) ==
  IF DOMAIN mreg = {} THEN None
  ELSE Some(mreg[CHOOSE t \in DOMAIN mreg : \A u \in DOMAIN mreg : u <= t])

\* _RUNTIME_REGISTRY.get(token), line 248
RegistryGet(token) == IF token \in DOMAIN mreg THEN Some(mreg[token]) ELSE None

\* everything but the two runtimes and the registry they share
NotMulti == <<regVars, tableVars, callVars, endVars, startVars, lifeVars, reg_log, codecVars, lock,
              lateVars>>

\* __init__ of object o, lines 36-57, with a handle that is not null.
MultiConstruct(o) ==
  /\ rts[o].life = "new"
  /\ rts' = [rts EXCEPT ![o].life = "ready", ![o].token = TokenOf(o)]
  /\ mreg' = [t \in DOMAIN mreg \cup {TokenOf(o)} |-> IF t = TokenOf(o) THEN o ELSE mreg[t]]
  /\ UNCHANGED NotMulti

\* o.tool()(func) for the first tool of o, lines 64-69.
MultiRegister(o) ==
  LET R == rts[o]
  IN  /\ R.life = "ready"
      /\ DOMAIN R.python_tools = {}
      /\ rts' = [rts EXCEPT ![o].python_tools = [i \in {R.next_tool_id} |-> ImplOf(o)],
                            ![o].next_tool_id = NextToolId(R.next_tool_id)]
      /\ UNCHANGED <<mreg, NotMulti>>

\* o.execute(cs), lines 77-84, the calls naming their tools by id.
MultiExecuteBegin(o, cs) ==
  LET R == rts[o]
      p == PrepareCalls(cs, tool_ids)
  IN  /\ R.life = "ready"
      /\ R.pc = "idle"
      /\ p.ok /\ EncodeOk(p.prepared)
      /\ rts' = [rts EXCEPT ![o].active_payloads = PublishedPayloads(p.payloads),
                            ![o].active_results = PublishedResults,
                            ![o].pc = "native",
                            ![o].batch = EncodeCalls(p.prepared).recs,
                            ![o].cst = [i \in 1..Len(cs) |-> "pending"],
                            ![o].records = [i \in 1..Len(cs) |-> NoRecord],
                            ![o].invoked = [i \in 1..Len(cs) |-> NoCall]]
      /\ UNCHANGED <<mreg, NotMulti>>

\* The core, working on the batch of o, calls the trampoline for call i with
\* the context token o gave it at creation; the trampoline (lines 247-254)
\* resolves the token and the runtime found handles the call (163-206).
MultiTrampoline(o, i) ==
  LET call == rts[o].batch[i]
      g == RegistryGet(TokenOf(o))
  IN  /\ rts[o].pc = "native"
      /\ i \in DOMAIN rts[o].cst
      /\ rts[o].cst[i] = "pending"
      /\ IF g.isNone
           THEN rts' = [rts EXCEPT ![o].records[i] = StaleContextResult(call.tool_id),
                                   ![o].cst[i] = "done"]
         ELSE IF call.tool_id \notin DOMAIN rts[g.v].python_tools
           THEN rts' = [rts EXCEPT ![o].records[i] = UnknownToolResult(call.tool_id),
                                   ![o].cst[i] = "done"]
         ELSE IF \/ rts[g.v].active_payloads.isNone
                 \/ call.payload >= Len(rts[g.v].active_payloads.v)
           THEN rts' = [rts EXCEPT ![o].records[i] = BadSlotResult(call.tool_id),
                                   ![o].cst[i] = "done"]
         ELSE LET slot == rts[g.v].active_payloads.v[call.payload + 1]
                  func == rts[g.v].python_tools[call.tool_id]
                  out == Apply(func, slot.args, slot.kwargs)
                  table == Append(IF rts[g.v].active_results.isNone THEN <<>>
                                  ELSE rts[g.v].active_results.v, out)
              IN  rts' = [rts EXCEPT
                            ![g.v].active_results = Some(table),
                            ![o].records[i] = HostResult(call.tool_id, out, Len(table) - 1),
                            ![o].invoked[i] = [func |-> func, args |-> slot.args,
                                               kwargs |-> slot.kwargs],
                            ![o].cst[i] = "done"]
      /\ UNCHANGED <<mreg, NotMulti>>

\* o.execute(), lines 84-117: the buffer is decoded, the output table of o
\* taken over and its tables cleared, the outputs resolved.
MultiExecuteFinish(o) ==
  LET R == rts[o]
      raw == DecodeResults(ResultBuffer(R.records))
      store == OrEmpty(R.active_results)
      final == ResolveResults(raw, store, tool_names)
  IN  /\ R.pc = "native"
      /\ \A i \in DOMAIN R.cst : R.cst[i] = "done"
      /\ rts' = [rts EXCEPT ![o].active_payloads = None,
                            ![o].active_results = None,
                            ![o].final = final,
                            ![o].pc = IF HasError(final) THEN "raised" ELSE "returned"]
      /\ UNCHANGED <<mreg, NotMulti>>

NextMulti ==
  \/ \E o \in Objects : MultiConstruct(o)
  \/ \E o \in Objects : MultiRegister(o)
  \/ \E o \in Objects, cs \in MultiBatches : MultiExecuteBegin(o, cs)
  \/ \E o \in Objects, i \in 1..MaxLen : MultiTrampoline(o, i)
  \/ \E o \in Objects : MultiExecuteFinish(o)

\* Two runtimes in one process, each with a thread of its own in execute().
MultiSpec == Init /\ [][NextMulti]_vars

\* --------------------------------------------------------------- lifecycle

\* The object before __init__ reaches line 48.
InitLife ==
  /\ Fresh
  /\ registry = {}
  /\ life = "new"
  /\ runtime = "unset"
  /\ ncreate = 0
  /\ op_in = NoOp
  /\ op_out = NoOp

\* __init__, lines 48-57: the token is entered into _RUNTIME_REGISTRY, then
\* aether_create_runtime is called; a null handle raises RuntimeError and
\* self._runtime is never assigned.
Construct(null_handle) ==
  /\ life = "new"
  /\ registry' = registry \cup {Token}
  /\ ncreate' = ncreate + 1
  /\ IF null_handle
       THEN life' = "failed" /\ runtime' = runtime
       ELSE life' = "ready" /\ runtime' = "live"
  /\ UNCHANGED <<tool_ids, tool_names, python_tools, next_tool_id, tableVars, callVars,
                 endVars, startVars, ndestroy, reg_log, codecVars, extVars>>

\* __del__, lines 221-227, called on a constructed runtime: the handle, if
\* the attribute holds one, is handed to aether_destroy_runtime, and the
\* token is popped from the registry. self._runtime is not assigned. (The
\* registry holds a reference to an instance whose __init__ raised and the
\* caller holds none, so that instance is never torn down.)
Teardown ==
  /\ life = "ready"
  /\ ndestroy < MaxTeardowns
  /\ ndestroy' = IF runtime # "unset" THEN ndestroy + 1 ELSE ndestroy
  /\ registry' = registry \ {Token}
  /\ UNCHANGED <<tool_ids, tool_names, python_tools, next_tool_id, tableVars, callVars,
                 endVars, startVars, life, runtime, ncreate, reg_log, codecVars, extVars>>

\* The core working on a batch of a runtime that has been destroyed reads
\* freed memory: it may carry on as before, or the process dies.
UseAfterDestroy(h) ==
  /\ pc[h] = "native"
  /\ ndestroy > 0
  /\ pc' = [pc EXCEPT ![h] = "crashed"]
  /\ UNCHANGED <<regVars, tableVars, callVars, endVars, calls, batch, own_payloads, nexec,
                 overlapped, submitted, auxVars>>

NextLife ==
  \/ \E f \in BOOLEAN : Construct(f)
  \/ Teardown
  \/ \E c \in RegChoices : life = "ready" /\ RegisterTool(c[1], c[2])
  \/ \E cs \in Batches : life = "ready" /\ ExecuteBegin(User, cs)
  \/ \E i \in 1..MaxSubmitted : NativeCall(User, i)
  \/ \E i \in 1..MaxSubmitted : HostCallBegin(User, i)
  \/ \E i \in 1..MaxSubmitted : HostCallEnd(User, i)
  \/ \E f \in BOOLEAN : ExecuteFinish(User, f)
  \/ UseAfterDestroy(User)

LifeSpec == InitLife /\ [][NextLife]_vars

\* ------------------------------------------------------------ registration

\* Names and implementations the host combines freely when it registers;
\* tool() takes any name, that of a built-in included.
RegNames == {"py_double", "py_fail", "sleep_ms"}

\* The single-call batches the user thread runs between registrations: the
\* tool by its name, and the first host tool_id by number.
RegBatches ==
  { <<CallByName("py_double", PArgs(<<21>>))>>,
    <<CallById(PYTHON_TOOL_BASE, PScalar(5))>>,
    <<CallByName("sleep_ms", PScalar(3))>> }

\* tool(name)(func), with the id of line 64 written down in reg_log.
Registration(name, func) ==
  /\ Len(reg_log) < MaxRegs
  /\ Register(name, func)
  /\ reg_log' = Append(reg_log, [name |-> name, func |-> func, tool_id |-> next_tool_id])

NextReg ==
  \/ \E n \in RegNames, f \in Impls : Registration(n, f)
  \/ \E cs \in RegBatches : ExecuteRejected(User, cs)
  \/ \E cs \in RegBatches : ExecuteBegin(User, cs)
  \/ NativeCall(User, 1)
  \/ HostCallBegin(User, 1)
  \/ HostCallEnd(User, 1)
  \/ \E f \in BOOLEAN : ExecuteFinish(User, f)

RegSpec == Init /\ [][NextReg]_vars

\* -------------------------------------------------------------------- codec

\* Argument lists and keyword arguments the payloads are built from.
ArgLists == SeqsUpTo({5, 21}, MaxLen)

KwargSets == {{}, {<<"value", 4>>}, {<<"value", 4>>, <<"extra", 1>>}}

\* Payload values of every shape _normalize_python_payload distinguishes.
PayloadSamples ==
  {PNone} \cup {PScalar(v) : v \in {0, 5}}
    \cup {PList(a) : a \in ArgLists} \cup {PTuple(a) : a \in ArgLists}
    \cup {PArgs(a) : a \in ArgLists} \cup {PKwargs(k) : k \in KwargSets}
    \cup {PBoth(a, k) : a \in ArgLists, k \in KwargSets}
    \cup {POther(v) : v \in {0, 7}}

\* Prepared call descriptors, some with a field that does not fit its
\* struct field, and one whose tool_id is missing or whose payload is not a
\* number (numeric is FALSE; its other fields stand for nothing).
DescriptorSamples ==
  {[tool_id |-> t, payload |-> q, numeric |-> TRUE] :
     t \in {0, 1, PYTHON_TOOL_BASE, U16_MAX, U16_MAX + 1}, q \in {0 - 1, 0, 3, 300}}
    \cup {[tool_id |-> 0, payload |-> 0, numeric |-> FALSE]}

\* Call descriptors as the caller of execute() writes them: ids on both
\* sides of the host base, by number and by built-in name, the payload
\* absent, a number, an empty list or a mapping.
RawCallSamples ==
  {CallById(t, q) : t \in {0, 1, PYTHON_TOOL_BASE - 1, PYTHON_TOOL_BASE, PYTHON_TOOL_BASE + 1},
                    q \in {PNone, PScalar(7), PList(<<>>), PArgs(<<21>>)}}
    \cup {CallByName("sleep_ms", PNone), CallByName("cpu_spin", PScalar(7))}

\* Decoded result records on both sides of the host base, and output tables
\* as a batch leaves them.
EntrySamples ==
  {Result(t, st, o, IF st = 0 THEN 0 ELSE ERR_HOST_RAISED) :
     t \in {1, PYTHON_TOOL_BASE - 1, PYTHON_TOOL_BASE}, st \in {0, 1}, o \in {0, 1, 5}}

StoreSamples ==
  {<<>>, <<[kind |-> "value", val |-> 42]>>,
   <<[kind |-> "value", val |-> 42], [kind |-> "exc", val |-> TOOL_ERROR]>>}

CodecInputs ==
  {[kind |-> "payload", v |-> p] : p \in PayloadSamples}
    \cup {[kind |-> "calls", v |-> c] : c \in SeqsUpTo(DescriptorSamples, MaxLen)}
    \cup {[kind |-> "raw", v |-> c] : c \in SeqsUpTo(RawCallSamples, MaxLen)}
    \cup {[kind |-> "entry", v |-> e, store |-> t] : e \in EntrySamples, t \in StoreSamples}
    \cup {[kind |-> "buffer", v |-> b, store |-> t] :
             b \in SeqsUpTo(EntrySamples, MaxLen), t \in StoreSamples}

\* The helpers are pure: the harness picks an argument and calls one.
InitCodec ==
  /\ Fresh
  /\ registry = {Token}
  /\ life = "ready"
  /\ runtime = "live"
  /\ ncreate = 1
  /\ op_in \in CodecInputs
  /\ op_out = NoOp

NotCodec == <<regVars, tableVars, callVars, endVars, startVars, lifeVars, reg_log, extVars>>

\* _normalize_python_payload(payload)
Normalize ==
  /\ op_in.kind = "payload"
  /\ op_out = NoOp
  /\ op_out' = [kind |-> "normalized", v |-> NormalizePythonPayload(op_in.v)]
  /\ UNCHANGED <<op_in, NotCodec>>

\* The loop of encode_calls, lines 89-97, from descriptor i on: the
\* exception the first failing descriptor raises ("" if none does). The
\* int() conversions of lines 91-92 raise ValueError through the except
\* clause; pack_into at line 96 raises struct.error, which the clause does
\* not catch.
RECURSIVE EncodeErrorFrom(_, _)
EncodeErrorFrom(prepared, i) ==
  IF i > Len(prepared) THEN ""
  ELSE IF ~prepared[i].numeric THEN "ValueError"
  ELSE IF ~EncodeOk(<<prepared[i]>>) THEN "struct.error"
  ELSE EncodeErrorFrom(prepared, i + 1)

\* encode_calls(calls): the EncodedBatch, or the exception raised
Encode ==
  /\ op_in.kind = "calls"
  /\ op_out = NoOp
  /\ op_out' = IF EncodeErrorFrom(op_in.v, 1) = ""
                 THEN [kind |-> "batch", v |-> PackCalls(op_in.v),
                       length |-> HEADER_SIZE + Len(op_in.v) * CALL_SIZE,
                       count |-> Len(op_in.v)]
                 ELSE [kind |-> "raised", v |-> EncodeErrorFrom(op_in.v, 1)]
  /\ UNCHANGED <<op_in, NotCodec>>

\* _prepare_calls(calls) on a runtime with the built-in names only
Prepare ==
  /\ op_in.kind = "raw"
  /\ op_out = NoOp
  /\ op_out' = [kind |-> "prepared", v |-> PrepareCalls(op_in.v, tool_ids)]
  /\ UNCHANGED <<op_in, NotCodec>>

\* execute(), lines 98-107, for one decoded record and the output table
Resolve ==
  /\ op_in.kind = "entry"
  /\ op_out = NoOp
  /\ op_out' = [kind |-> "output", v |-> ResolveOutput(op_in.v, op_in.store)]
  /\ UNCHANGED <<op_in, NotCodec>>

\* A decoder that keeps the ctypes structure of the result array, which
\* lives in the native buffer, instead of converting its fields.
HostCopy_View(entry, i) == [view |-> TRUE, at |-> i, rec |-> NoRecord]

\* ToolExecution(tool_id=int(entry.tool_id), ...), binary.py lines 115-121:
\* every field of record i is converted to a Python int of its own.
HostCopy(entry, i) == [view |-> FALSE, at |-> i, rec |-> entry]

\* decode_results(buffer) as execute() keeps it in raw_results
DecodeEntries(buffer) ==
  LET d == DecodeResults(buffer)
  IN  [i \in 1..Len(d) |-> HostCopy(d[i], i)]

\* What the host gets when it uses a decoded entry: the values it holds, or,
\* through a view, the bytes of the buffer; after the release those bytes
\* are whatever the allocator left there.
ReadEntry(e, recs, freed, garbage) ==
  IF ~e.view THEN e.rec
  ELSE IF freed THEN garbage
  ELSE recs[e.at]

\* execute(), lines 84-86: aether_execute handed back a buffer with the
\* records op_in.v and decode_results ran on it.
BufferDecode ==
  /\ op_in.kind = "buffer"
  /\ op_out = NoOp
  /\ op_out' = [kind |-> "decoded", raw |-> DecodeEntries(ResultBuffer(op_in.v)),
                freed |-> FALSE]
  /\ UNCHANGED <<op_in, NotCodec>>

\* execute(), lines 87-88: aether_free_buffer
BufferFree ==
  /\ op_out.kind = "decoded"
  /\ op_out' = [op_out EXCEPT !.kind = "freed", !.freed = TRUE]
  /\ UNCHANGED <<op_in, NotCodec>>

\* execute(), lines 95-117: the loop over raw_results after the release
BufferResolve ==
  /\ op_out.kind = "freed"
  /\ \E garbage \in EntrySamples :
       LET raw == op_out.raw
           entries == [i \in 1..Len(raw) |->
                         ReadEntry(raw[i], op_in.v, op_out.freed, garbage)]
       IN  op_out' = [kind |-> "resolved",
                      final |-> ResolveResults(entries, op_in.store, tool_names),
                      late_reads |-> Cardinality({i \in 1..Len(raw) : raw[i].view})]
  /\ UNCHANGED <<op_in, NotCodec>>

NextCodec ==
  \/ Normalize
  \/ Encode
  \/ Prepare
  \/ Resolve
  \/ BufferDecode
  \/ BufferFree
  \/ BufferResolve

CodecSpec == InitCodec /\ [][NextCodec]_vars

\* ------------------------------------------------------------------ claims

\* What the implementation of call i of h's batch was called with and what
\* it returned or raised, once the call is done (running keeps the function
\* and the arguments the handler fetched).
Invoked(h, i) ==
  IF cst[h][i] = "done" /\ running[h][i] # NoCall
    THEN [called |-> TRUE, args |-> running[h][i].args, kwargs |-> running[h][i].kwargs,
          out |-> Apply(running[h][i].func, running[h][i].args, running[h][i].kwargs)]
    ELSE [called |-> FALSE, args |-> <<>>, kwargs |-> {}, out |-> NoOutput]

HostRouted(h, i) == batch[h].recs[i].tool_id >= PYTHON_TOOL_BASE

\* The slot that h's own _prepare_calls stored for call i.
OwnSlot(h, i) == own_payloads[h][batch[h].recs[i].payload + 1]

\* execute() got past line 93: it resolved its results, then returned or raised.
Resolved(h) == pc[h] = "returned" \/ (pc[h] = "raised" /\ error[h].kind = "RuntimeError")

\* C1: every host-routed call is invoked with the arguments that its own
\* batch stored for it, also when two execute() calls on the runtime overlap.
C1_OwnArguments ==
  \A h \in Threads : \A i \in DOMAIN cst[h] :
    Invoked(h, i).called =>
      /\ Invoked(h, i).args = OwnSlot(h, i).args
      /\ Invoked(h, i).kwargs = OwnSlot(h, i).kwargs

\* C2: the resolved output of every successful host-routed call is the value
\* its own implementation invocation returned, also when two execute() calls
\* on the runtime overlap.
C2_OwnOutputs ==
  \A h \in Threads : \A i \in DOMAIN final_results[h] :
    (HostRouted(h, i) /\ final_results[h][i].status = 0) =>
      final_results[h][i].output = Invoked(h, i).out

\* The calls of h's batch whose implementation was invoked.
Invocations(h) == {i \in DOMAIN cst[h] : Invoked(h, i).called}

\* C3: when execute(calls) returns normally the list has one entry per input
\* call, and entry i carries the tool_id of calls[i] (the id given in the
\* call, or an id registered under the name the call gives), whatever order
\* the calls completed in.
C3_OnePerCallInOrder ==
  \A h \in Threads :
    pc[h] = "returned" =>
      /\ Len(final_results[h]) = Len(calls[h])
      /\ \A i \in 1..Len(calls[h]) :
           LET t == final_results[h][i].tool_id
           IN  IF calls[h][i].has_id THEN t = calls[h][i].tool_id
               ELSE t \in DOMAIN tool_names /\ tool_names[t] = calls[h][i].name

\* A batch of two calls to different tools returned after its second call
\* completed first.
C3_Witness ==
  \E h \in Threads :
    /\ pc[h] = "returned"
    /\ first_done[h] = 2
    /\ final_results[h][1].tool_id # final_results[h][2].tool_id

\* C4: once aether_execute was invoked, aether_free_buffer is invoked exactly
\* once before execute() returns or raises, also when decode_results raises,
\* and never a second time; it is not invoked without a buffer.
C4_FreeExactlyOnce ==
  \A h \in Threads :
    /\ nfree[h] <= nexec[h]
    /\ nfree[h] <= 1
    /\ (nexec[h] = 1 /\ pc[h] \in {"returned", "raised"}) => nfree[h] = 1

\* execute() raised out of decode_results and the buffer was released once.
C4_Witness ==
  \E h \in Threads :
    /\ pc[h] = "raised"
    /\ error[h].kind = "DecodeError"
    /\ nexec[h] = 1
    /\ nfree[h] = 1

\* C5: in a batch that runs with no other execute() in flight on the
\* runtime, the host invocations dispatched concurrently get pairwise
\* distinct output-table indices 0..N-1, and the output table holds exactly
\* one entry per invocation, while the batch is in flight and when
\* execute() takes the table over.
C5_DistinctSlotIndices ==
  \A h \in Threads :
    ~overlapped[h] =>
      LET N == Cardinality(Invocations(h))
      IN  /\ InFlight(h) =>
               /\ ~active_results.isNone
               /\ Len(active_results.v) = N
               /\ {records[h][i].output : i \in Invocations(h)} = 0..(N - 1)
          /\ Resolved(h) => Len(results_store[h]) = N

\* Two host calls of one batch, both invoked, the second one stored first.
C5_Witness ==
  \E h \in Threads :
    /\ ~overlapped[h]
    /\ pc[h] = "native"
    /\ Invocations(h) = {1, 2}
    /\ first_done[h] = 2
    /\ Len(active_results.v) = 2
    /\ records[h][1].output = 1
    /\ records[h][2].output = 0

\* Call i of h's batch is a built-in of the core, or a host call whose
\* implementation returned.
Succeeding(h, i) ==
  \/ ~HostRouted(h, i) /\ batch[h].recs[i].tool_id \in NativeTable
  \/ Invoked(h, i).called /\ Invoked(h, i).out.kind = "value"

\* Call i of h's batch is a host call whose implementation raised.
Raising(h, i) == Invoked(h, i).called /\ Invoked(h, i).out.kind = "exc"

\* C6: a host implementation that raises does not abort its batch: when the
\* batch is decoded every call is done and has its own record, a succeeding
\* call has status 0 and the raising one a nonzero status, so one raising
\* call among n succeeding ones gives n records of status 0 and one nonzero.
C6_FailureIsolation ==
  \A h \in Threads :
    Resolved(h) =>
      LET n == Len(calls[h])
          raw == raw_results[h]
      IN  /\ Len(raw) = n
          /\ \A i \in 1..n : cst[h][i] = "done"
          /\ \A i \in 1..n : Succeeding(h, i) => raw[i].status = 0
          /\ \A i \in 1..n : Raising(h, i) => raw[i].status # 0
          /\ ( /\ Cardinality({i \in 1..n : Raising(h, i)}) = 1
               /\ \A i \in 1..n : Raising(h, i) \/ Succeeding(h, i) )
             => /\ Cardinality({i \in 1..n : raw[i].status = 0}) = n - 1
                /\ Cardinality({i \in 1..n : raw[i].status # 0}) = 1

\* The raising host call completed first, its sibling ran after it and
\* succeeded.
C6_Witness ==
  \E h \in Threads :
    /\ Resolved(h)
    /\ Len(calls[h]) = 2
    /\ Raising(h, first_done[h])
    /\ Succeeding(h, 3 - first_done[h])
    /\ raw_results[h][3 - first_done[h]].status = 0
    /\ raw_results[h][first_done[h]].status = 1

\* What the runtime object still holds of a batch once execute() has ended:
\* its two table attributes (final_results is a local of execute()).
RuntimeTables == {active_payloads, active_results}

\* C7: after execute() raises because a call of the batch failed, the
\* complete ordered result list of the batch is obtainable from the runtime.
C7_SideChannel ==
  \A h \in Threads :
    (pc[h] = "raised" /\ error[h].kind = "RuntimeError") =>
      \E attr \in RuntimeTables : ~attr.isNone /\ attr.v = final_results[h]

\* The positions of h's batch whose record has a nonzero status.
FailingPositions(h) == {i \in DOMAIN records[h] : records[h][i].status # 0}

\* C8: once the results are resolved, execute() has raised exactly when some
\* record has a nonzero status, and the error names the failing call at the
\* lowest input position (its name, tool_id and error code).
C8_FirstFailureByPosition ==
  \A h \in Threads :
    Resolved(h) =>
      IF FailingPositions(h) = {} THEN pc[h] = "returned" /\ error[h] = NoError
      ELSE /\ pc[h] = "raised"
           /\ \E m \in FailingPositions(h) :
                /\ \A j \in FailingPositions(h) : m <= j
                /\ error[h].tool_id = batch[h].recs[m].tool_id
                /\ error[h].error_code = records[h][m].error_code
                /\ error[h].name = final_results[h][m].name
                /\ \/ error[h].name = "tool:" \o ToString(batch[h].recs[m].tool_id)
                   \/ /\ batch[h].recs[m].tool_id \in DOMAIN tool_names
                      /\ error[h].name = tool_names[batch[h].recs[m].tool_id]

\* Both calls failed, the one at position 2 (unknown tool, -404) first in
\* time; the error names the call at position 1 (py_fail, -500).
C8_Witness ==
  \E h \in Threads :
    /\ pc[h] = "raised"
    /\ error[h].kind = "RuntimeError"
    /\ FailingPositions(h) = {1, 2}
    /\ first_done[h] = 2
    /\ records[h][1].error_code = -500
    /\ records[h][2].error_code = -404
    /\ error[h].error_code = -500
    /\ error[h].name = "py_fail"

UnknownHostCall(h, i) ==
  /\ cst[h][i] = "done"
  /\ HostRouted(h, i)
  /\ batch[h].recs[i].tool_id \notin DOMAIN python_tools

\* C10: a call at or above the host base with no registered implementation
\* gets status 1, error_code -404 and output 0 and no implementation is
\* invoked for it; the output table never holds more entries than there
\* were implementation invocations, so the call adds none.
C10_UnknownHostTool ==
  /\ \A h \in Threads : \A i \in DOMAIN cst[h] :
       UnknownHostCall(h, i) =>
         /\ records[h][i].status = 1
         /\ records[h][i].error_code = -404
         /\ records[h][i].output = 0
         /\ records[h][i].tool_id = batch[h].recs[i].tool_id
         /\ ~Invoked(h, i).called
         /\ Resolved(h) => raw_results[h][i] = records[h][i]
  /\ ~active_results.isNone =>
       Len(active_results.v) <= Cardinality({hi \in Threads \X (1..MaxSubmitted) :
                                               hi[2] \in Invocations(hi[1])})

\* tool_id 9999 was answered with -404 in a batch whose other call ran its
\* implementation and stored the only entry of the output table.
C10_Witness ==
  \E h \in Threads :
    /\ pc[h] = "native"
    /\ Len(calls[h]) = 2
    /\ UnknownHostCall(h, 2)
    /\ batch[h].recs[2].tool_id = 9999
    /\ Invoked(h, 1).called
    /\ first_done[h] = 1
    /\ Len(active_results.v) = 1

\* Result buffers a caller may hand to decode_results: the pointer null or
\* not, any count, with at least `count` records behind the pointer.
ResultSamples == {Result(0, 0, 3, 0), Result(PYTHON_TOOL_BASE, 1, 0, ERR_UNKNOWN_TOOL)}

DecodeSamples ==
  {[null |-> n, count |-> c, recs |-> r] :
     n \in BOOLEAN, c \in 0..MaxSubmitted,
     r \in {q \in SeqsUpTo(ResultSamples, MaxSubmitted) : Len(q) = MaxSubmitted}}

DecodeEmptyOnNullOrZero ==
  \A b \in DecodeSamples : (b.null \/ b.count = 0) => DecodeResults(b) = <<>>

\* C11: execute([]) is not an error: once it has ended it has returned the
\* empty list and raised nothing; and decode_results returns the empty
\* sequence for every buffer whose count is 0 or whose pointer is null.
C11_EmptyBatch ==
  /\ \A h \in Threads :
       (pc[h] \notin {"idle", "native"} /\ calls[h] = <<>>) =>
         /\ pc[h] = "returned"
         /\ final_results[h] = <<>>
         /\ error[h] = NoError
  /\ DecodeEmptyOnNullOrZero

\* execute([]) went through aether_execute and returned the empty list while
\* the other thread's batch of two calls had raised.
C11_Witness ==
  \E h \in Threads, g \in Threads :
    /\ pc[h] = "returned"
    /\ calls[h] = <<>>
    /\ nexec[h] = 1
    /\ nfree[h] = 1
    /\ final_results[h] = <<>>
    /\ pc[g] = "raised"
    /\ Len(calls[g]) = 2

\* C12: aether_destroy_runtime is called on the handle of one runtime at
\* most once however often teardown is invoked: the first teardown destroys
\* and clears the handle, a later one finds no handle.
C12_DestroyOnce ==
  /\ ndestroy <= 1
  /\ ndestroy = 1 => runtime = "unset"

\* C13: aether_destroy_runtime is never called while an execute() on the
\* handle is in flight.
C13_NoDestroyInFlight ==
  [][ndestroy' > ndestroy => \A h \in Threads : ~InFlight(h)]_vars

\* C14: a construction that raised because aether_create_runtime returned a
\* null handle leaves no entry for the instance in the token registry.
C14_NoPartialState ==
  life = "failed" => Token \notin registry

\* C15: the step in which execute() ends after aether_execute (it returns,
\* raises the aggregate error, or raises out of decode_results) leaves the
\* runtime's slot table and output table absent.
C15_TablesTornDown ==
  [][\A h \in Threads :
       (pc[h] = "native" /\ pc'[h] \in {"returned", "raised"}) =>
         (active_payloads' = None /\ active_results' = None)]_vars

\* The ids the registrations got, in registration order.
AssignedIds == [k \in 1..Len(reg_log) |-> reg_log[k].tool_id]

\* C16: the k-th registration got tool_id 1000 + (k - 1); the assigned ids
\* are pairwise distinct and at or above 1000; the implementations are bound
\* under exactly these ids, so none under an id of the native range.
C16_MonotonicIds ==
  /\ \A k \in 1..Len(reg_log) : AssignedIds[k] = PYTHON_TOOL_BASE + (k - 1)
  /\ \A j, k \in 1..Len(reg_log) : j # k => AssignedIds[j] # AssignedIds[k]
  /\ DOMAIN python_tools = {AssignedIds[k] : k \in 1..Len(reg_log)}
  /\ \A id \in DOMAIN python_tools : id >= PYTHON_TOOL_BASE /\ id \notin NativeTable
  /\ next_tool_id = PYTHON_TOOL_BASE + Len(reg_log)

\* Three registrations, two of them under one name.
C16_Witness ==
  /\ Len(reg_log) = 3
  /\ reg_log[1].name = reg_log[3].name
  /\ AssignedIds = <<1000, 1001, 1002>>
  /\ DOMAIN python_tools = {1000, 1001, 1002}

\* The last registration made under `name`.
LastRegistered(name) ==
  LET ks == {k \in 1..Len(reg_log) : reg_log[k].name = name}
  IN  reg_log[CHOOSE k \in ks : \A j \in ks : j <= k]

\* C17: every registration keeps its own entry (its id stays bound to its
\* implementation and its name) when the name is registered again; the name
\* then maps to the id of the last registration, a call by name is encoded
\* with that id, and a call that carries an id invokes the implementation
\* registered under that id.
C17_Reregistration ==
  /\ [](\A k \in 1..Len(reg_log) :
          /\ reg_log[k].tool_id \in DOMAIN python_tools
          /\ python_tools[reg_log[k].tool_id] = reg_log[k].func
          /\ tool_names[reg_log[k].tool_id] = reg_log[k].name
          /\ tool_ids[reg_log[k].name] = LastRegistered(reg_log[k].name).tool_id)
  /\ [](\A h \in Threads : \A i \in DOMAIN running[h] :
          running[h][i] # NoCall =>
            \E k \in 1..Len(reg_log) :
              /\ reg_log[k].tool_id = batch[h].recs[i].tool_id
              /\ running[h][i].func = reg_log[k].func)
  /\ [][\A h \in Threads :
          (pc[h] = "idle" /\ pc'[h] = "native") =>
            \A i \in 1..Len(calls'[h]) :
              (~calls'[h][i].has_id
                 /\ \E k \in 1..Len(reg_log) : reg_log[k].name = calls'[h][i].name) =>
                batch'[h].recs[i].tool_id = LastRegistered(calls'[h][i].name).tool_id]_vars

\* py_double was registered as double and then again as fail; the call that
\* carries tool_id 1000 ran the first implementation and returned 10, while
\* the name maps to 1001.
C17_Witness ==
  /\ Len(reg_log) >= 2
  /\ reg_log[1] = [name |-> "py_double", func |-> "double", tool_id |-> 1000]
  /\ reg_log[2] = [name |-> "py_double", func |-> "fail", tool_id |-> 1001]
  /\ tool_ids["py_double"] = 1001
  /\ pc[User] = "returned"
  /\ calls[User] = <<CallById(PYTHON_TOOL_BASE, PScalar(5))>>
  /\ running[User][1].func = "double"
  /\ final_results[User][1].output = [kind |-> "value", val |-> 10]

\* Some call of cs gives no tool_id and a name that is in no registration.
NamesUnknownTool(cs, ids) ==
  \E i \in 1..Len(cs) : ~cs[i].has_id /\ cs[i].has_name /\ cs[i].name \notin DOMAIN ids

\* C18: the step in which a thread enters execute() with a call that names
\* a tool never registered raises KeyError (the unknown-tool error) and does
\* nothing else: aether_execute is not called, no buffer is acquired or
\* freed, no call of any batch runs, and the registrations and the active
\* tables stay as they were.
C18_UnknownNameRejected ==
  [][\A h \in Threads :
       (pc[h] = "idle" /\ pc'[h] # "idle" /\ NamesUnknownTool(calls'[h], tool_ids)) =>
         /\ pc'[h] = "raised"
         /\ error'[h].kind = "KeyError"
         /\ nexec' = nexec
         /\ nfree' = nfree
         /\ batch' = batch
         /\ UNCHANGED <<regVars, tableVars, callVars>>]_vars

\* execute() raised KeyError for py_double while another tool is registered
\* and the other thread's batch is in flight with its tables published.
C18_Witness ==
  \E h \in Threads, g \in Threads :
    /\ pc[h] = "raised"
    /\ error[h].kind = "KeyError"
    /\ NamesUnknownTool(calls[h], tool_ids)
    /\ nexec[h] = 0
    /\ nfree[h] = 0
    /\ pc[g] = "native"
    /\ ~active_payloads.isNone
    /\ DOMAIN python_tools # {}

\* C19: normalization of a payload gives: for None no arguments at all; for
\* a mapping with an args or a kwargs key exactly the arguments under these
\* keys, none for a missing key; for a list or a tuple its elements as the
\* positional arguments; for any other value, a mapping with neither key
\* included, the value itself as the one positional argument.
C19_Normalization ==
  (op_in.kind = "payload" /\ op_out # NoOp) =>
    LET p == op_in.v
        n == op_out.v
    IN  /\ p.kind = "none" => n = [args |-> <<>>, kwargs |-> {}]
        /\ (p.kind = "dict" /\ p.hasArgs) => n.args = p.args
        /\ (p.kind = "dict" /\ p.hasKwargs) => n.kwargs = p.kwargs
        /\ (p.kind = "dict" /\ p.hasArgs /\ ~p.hasKwargs) => n.kwargs = {}
        /\ (p.kind = "dict" /\ ~p.hasArgs /\ p.hasKwargs) => n.args = <<>>
        /\ p.kind \in {"list", "tuple"} => n = [args |-> p.args, kwargs |-> {}]
        /\ p.kind = "scalar" => n = [args |-> <<p.val>>, kwargs |-> {}]
        /\ (p.kind = "dict" /\ ~p.hasArgs /\ ~p.hasKwargs) =>
             (Len(n.args) = 1 /\ n.args[1] = p /\ n.kwargs = {})

\* A mapping with only a kwargs key was normalized to no positional and its
\* two keyword arguments.
C19_Witness ==
  /\ op_in = [kind |-> "payload", v |-> PKwargs({<<"value", 4>>, <<"extra", 1>>})]
  /\ op_out = [kind |-> "normalized",
               v |-> [args |-> <<>>, kwargs |-> {<<"value", 4>>, <<"extra", 1>>}]]

\* C20: the buffer encode_calls makes of n descriptors has 8 + 16n bytes; its
\* header holds the count n and a zero reserved word; record i, at offset
\* 8 + 16(i - 1), holds the tool_id and the payload of descriptor i, with the
\* reserved field and the four pad bytes zero; these are the records the
\* batch is submitted with.
C20_EncodeLayout ==
  (op_in.kind = "calls" /\ op_out # NoOp /\ op_out.kind = "batch") =>
    LET cs == op_in.v
        n == Len(cs)
        b == op_out.v
        off(i) == HEADER_SIZE + CALL_SIZE * (i - 1)
    IN  /\ Len(b) = 8 + 16 * n
        /\ op_out.length = Len(b)
        /\ op_out.count = n
        /\ \A k \in 1..Len(b) : b[k] \in 0..255
        /\ Unsigned(b, 1, 4) = n
        /\ Unsigned(b, 5, 4) = 0
        /\ \A i \in 1..n :
             /\ Unsigned(b, off(i) + 1, 2) = cs[i].tool_id
             /\ Unsigned(b, off(i) + 3, 2) = 0
             /\ Unsigned(b, off(i) + 5, 4) = 0
             /\ Unsigned(b, off(i) + 9, 8) = cs[i].payload
        /\ EncodeCalls(cs).count = Unsigned(b, 1, 4)
        /\ EncodeCalls(cs).recs =
             [i \in 1..n |-> [tool_id |-> Unsigned(b, off(i) + 1, 2),
                              reserved |-> Unsigned(b, off(i) + 3, 2),
                              payload |-> Unsigned(b, off(i) + 9, 8)]]

\* Two descriptors, the larger tool_id first, encoded into 40 bytes.
C20_Witness ==
  /\ op_in = [kind |-> "calls",
              v |-> <<[tool_id |-> U16_MAX, payload |-> 300, numeric |-> TRUE],
                      [tool_id |-> 1, payload |-> 3, numeric |-> TRUE]>>]
  /\ op_out # NoOp
  /\ op_out.kind = "batch"
  /\ Len(op_out.v) = 40
  /\ op_out.v[9] = 255 /\ op_out.v[10] = 255
  /\ op_out.v[17] = 44 /\ op_out.v[18] = 1
  /\ op_out.v[25] = 1
  /\ op_out.v[33] = 3

\* Some descriptor of cs has a tool_id outside 0..65535 or a payload below
\* 0 (payloads above 2^64 - 1 are beyond the integers of the checker).
OutOfRange(cs) ==
  \E i \in 1..Len(cs) :
    cs[i].numeric /\ (cs[i].tool_id < 0 \/ cs[i].tool_id > U16_MAX \/ cs[i].payload < 0)

\* C21: encode_calls of descriptors with a tool_id or a payload out of range
\* raises the error it raises for a missing or non-numeric field
\* (ValueError), and makes no buffer.
C21_OutOfRangeIsInvalidCall ==
  (op_in.kind = "calls" /\ op_out # NoOp /\ OutOfRange(op_in.v)) =>
    (op_out.kind = "raised" /\ op_out.v = "ValueError")

\* C22: execute() has returned or raised after aether_execute only when
\* every call of its batch has its result record; and an execute() that has
\* submitted its batch eventually returns or raises.
C22_RunsToCompletion ==
  /\ [](\A h \in Threads :
          (pc[h] \in {"returned", "raised"} /\ nexec[h] = 1) =>
            /\ Len(records[h]) = Len(calls[h])
            /\ \A i \in 1..Len(calls[h]) : cst[h][i] = "done")
  /\ \A h \in Threads : (pc[h] = "native") ~> (pc[h] \in {"returned", "raised"})

\* execute() raised after both calls of its batch were done, one of them a
\* host call whose implementation raised.
C22_Witness ==
  /\ pc[User] = "raised"
  /\ nexec[User] = 1
  /\ Len(calls[User]) = 2
  /\ \A i \in 1..2 : cst[User][i] = "done"
  /\ \E i \in 1..2 : Raising(User, i)

\* Call i of h's batch is routed to the host and its handler has not read
\* its slot yet.
AwaitsSlot(h, i) ==
  /\ pc[h] = "native"
  /\ i \in DOMAIN cst[h]
  /\ cst[h][i] \in {"pending", "reading"}
  /\ batch[h].recs[i].tool_id >= PYTHON_TOOL_BASE

AtPosition(h, i, positions) == i \in DOMAIN cst[h] /\ cst[h][i] \in positions

\* C23: the handler of a call never holds the lock while the call is inside
\* its implementation; and whatever the implementations of its siblings do,
\* a host call reads its slot (or is answered with an error record) and a
\* call whose implementation has returned stores its outcome.
C23_LockNotHeldInImplementation ==
  /\ [](\A h \in Threads : \A i \in DOMAIN cst[h] :
          cst[h][i] = "running" => lock # <<h, i>>)
  /\ \A i \in 1..MaxSubmitted :
       AwaitsSlot(User, i) ~> AtPosition(User, i, {"running", "returned", "storing", "done"})
  /\ \A i \in 1..MaxSubmitted :
       AtPosition(User, i, {"returned"}) ~> AtPosition(User, i, {"done"})

\* The first call of the batch is inside its implementation while the handler
\* of the second, whose implementation has returned, holds the lock to store
\* its outcome.
C23_Witness ==
  /\ Len(calls[User]) = 2
  /\ cst[User][1] = "running"
  /\ cst[User][2] = "storing"
  /\ lock = <<User, 2>>

\* The calls before position i of cs that resolve to a host tool.
HostBefore(cs, ids, i) ==
  Cardinality({j \in 1..(i - 1) : ResolveToolId(cs[j], ids).id >= PYTHON_TOOL_BASE})

\* The integer a payload is on the wire for a native call: the number
\* itself, 0 for an absent (or empty) payload.
Literal(q) == IF q.kind = "scalar" THEN q.val ELSE 0

\* C24: a prepared call has a slot, and the slot's index as its payload,
\* exactly when its tool_id is at or above 1000; a call below 1000 carries
\* its literal payload (0 when absent) and adds nothing to the slot table;
\* and the output of a successful record below 1000 is the wire value
\* itself, whatever the output table holds.
C24_SlotIffHostRouted ==
  /\ (op_in.kind = "raw" /\ op_out # NoOp /\ op_out.v.ok) =>
       LET cs == op_in.v
           p == op_out.v
       IN  /\ Len(p.prepared) = Len(cs)
           /\ Len(p.payloads) = HostBefore(cs, tool_ids, Len(cs) + 1)
           /\ \A i \in 1..Len(cs) :
                LET id == ResolveToolId(cs[i], tool_ids).id
                    k == HostBefore(cs, tool_ids, i)
                IN  /\ p.prepared[i].tool_id = id
                    /\ IF id >= PYTHON_TOOL_BASE
                         THEN /\ p.prepared[i].payload = k
                              /\ p.payloads[k + 1] = NormalizePythonPayload(cs[i].payload)
                         ELSE p.prepared[i].payload = Literal(cs[i].payload)
  /\ (op_in.kind = "entry" /\ op_out # NoOp
        /\ op_in.v.tool_id < PYTHON_TOOL_BASE /\ op_in.v.status = 0) =>
       op_out.v = [kind |-> "value", val |-> op_in.v.output]

\* A built-in call without a payload followed by a host call: the first
\* carries 0, the second the index of the only slot.
C24_Witness ==
  /\ op_in = [kind |-> "raw",
              v |-> <<CallByName("sleep_ms", PNone), CallById(PYTHON_TOOL_BASE + 1, PScalar(7))>>]
  /\ op_out # NoOp
  /\ op_out.v.ok
  /\ op_out.v.prepared = <<[tool_id |-> 0, payload |-> 0],
                           [tool_id |-> PYTHON_TOOL_BASE + 1, payload |-> 0]>>
  /\ op_out.v.payloads = <<[args |-> <<7>>, kwargs |-> {}]>>

\* The trampoline is entered for call i of h's batch in this step.
TrampolineEntered(h, i) ==
  /\ pc[h] = "native"
  /\ i \in DOMAIN cst[h]
  /\ cst[h][i] = "pending"
  /\ batch[h].recs[i].tool_id >= PYTHON_TOOL_BASE
  /\ cst'[h][i] # "pending"

\* C25: a trampoline invocation whose token is not in the registry writes
\* status 1, error_code -410, output 0 and returns nonzero; no
\* implementation is invoked and the slot and output tables are neither
\* read into a call nor written.
C25_StaleContext ==
  [][\A h \in Threads : \A i \in 1..MaxSubmitted :
       (TrampolineEntered(h, i) /\ Token \notin registry) =>
         /\ cst'[h][i] = "done"
         /\ records'[h][i] = Result(batch[h].recs[i].tool_id, 1, 0, ERR_STALE_CONTEXT)
         /\ TrampolineReturn(records'[h][i]) # 0
         /\ running' = running
         /\ tableVars' = tableVars]_vars

\* A host call of a batch still in flight after the teardown was answered
\* with -410 although its tool is registered and its slot published.
C25_Witness ==
  /\ Token \notin registry
  /\ \E i \in DOMAIN cst[User] :
       /\ cst[User][i] = "done"
       /\ batch[User].recs[i].tool_id \in DOMAIN python_tools
       /\ records[User][i] = Result(batch[User].recs[i].tool_id, 1, 0, ERR_STALE_CONTEXT)
       /\ running[User][i] = NoCall
       /\ ~active_payloads.isNone

\* No batch is active, or q is not an index of the active slot table.
NoValidSlot(q) == active_payloads.isNone \/ q < 0 \/ q >= Len(active_payloads.v)

\* C26: a trampoline invocation for a registered tool that finds no active
\* batch, or no slot at the index the call carries, writes status 1,
\* error_code -400 and output 0, invokes no implementation and leaves the
\* slot and output tables as they are.
C26_BadSlot ==
  [][\A h \in Threads : \A i \in 1..MaxSubmitted :
       (/\ TrampolineEntered(h, i)
        /\ Token \in registry
        /\ batch[h].recs[i].tool_id \in DOMAIN python_tools
        /\ NoValidSlot(batch[h].recs[i].payload)) =>
         /\ cst'[h][i] = "done"
         /\ records'[h][i] = Result(batch[h].recs[i].tool_id, 1, 0, ERR_BAD_SLOT)
         /\ running' = running
         /\ tableVars' = tableVars]_vars

\* A call of a registered tool was answered with -400: the other thread's
\* execute() had replaced or taken down the slot table.
C26_Witness ==
  \E h \in Threads : \E i \in DOMAIN cst[h] :
    /\ cst[h][i] = "done"
    /\ batch[h].recs[i].tool_id \in DOMAIN python_tools
    /\ records[h][i] = Result(batch[h].recs[i].tool_id, 1, 0, ERR_BAD_SLOT)
    /\ running[h][i] = NoCall
    /\ overlapped[h]

Handled(o, i) ==
  /\ i \in DOMAIN rts[o].cst
  /\ rts[o].cst[i] = "pending"
  /\ rts'[o].cst[i] = "done"

\* C28: with two runtimes alive, a trampoline invocation for a call of
\* runtime o is handled by o: the token of o is registered to o, the
\* implementation invoked is the one o has under the call's tool_id, its
\* arguments are read from the slot table of o, its outcome is appended to
\* the output table of o, and nothing of the other runtime changes.
C28_RoutedByToken ==
  [][\A o \in Objects : \A i \in 1..MaxLen :
       Handled(o, i) =>
         LET call == rts[o].batch[i]
             R == rts[o]
         IN  /\ RegistryGet(TokenOf(o)) = Some(o)
             /\ \A q \in Objects \ {o} : rts'[q] = rts[q]
             /\ IF call.tool_id \in DOMAIN R.python_tools
                  THEN LET slot == R.active_payloads.v[call.payload + 1]
                           out == Apply(R.python_tools[call.tool_id], slot.args, slot.kwargs)
                       IN  /\ rts'[o].invoked[i] =
                                [func |-> R.python_tools[call.tool_id], args |-> slot.args,
                                 kwargs |-> slot.kwargs]
                           /\ rts'[o].active_results = Some(Append(R.active_results.v, out))
                           /\ rts'[o].records[i] =
                                HostResult(call.tool_id, out, Len(R.active_results.v))
                  ELSE /\ rts'[o].invoked[i] = NoCall
                       /\ rts'[o].active_results = R.active_results
                       /\ rts'[o].records[i] = UnknownToolResult(call.tool_id)]_vars

\* Both runtimes are inside execute() with the same call, tool_id 1000 and
\* argument 5: A ran its double and stored 10, B ran its fail and stored the
\* exception.
C28_Witness ==
  /\ rts["A"].pc = "native"
  /\ rts["B"].pc = "native"
  /\ rts["A"].batch[1] = rts["B"].batch[1]
  /\ rts["A"].cst[1] = "done"
  /\ rts["B"].cst[1] = "done"
  /\ rts["A"].invoked[1] = [func |-> "double", args |-> <<5>>, kwargs |-> {}]
  /\ rts["B"].invoked[1] = [func |-> "fail", args |-> <<5>>, kwargs |-> {}]
  /\ rts["A"].active_results.v = <<[kind |-> "value", val |-> 10]>>
  /\ rts["B"].active_results.v = <<[kind |-> "exc", val |-> TYPE_ERROR]>>

\* C29: when the buffer is released every record of it has been copied,
\* field by field, into host values, and the resolution that follows reads
\* nothing from the buffer: its results are those of the records the buffer
\* held before the release.
C29_NoReadAfterFree ==
  /\ op_out.kind = "freed" =>
       /\ Len(op_out.raw) = Len(op_in.v)
       /\ \A i \in 1..Len(op_in.v) : ~op_out.raw[i].view /\ op_out.raw[i].rec = op_in.v[i]
  /\ op_out.kind = "resolved" =>
       /\ op_out.late_reads = 0
       /\ op_out.final = ResolveResults(op_in.v, op_in.store, tool_names)

\* A buffer of two records was decoded, released and resolved: the host
\* record to the value stored at index 0, the built-in one to its wire value.
C29_Witness ==
  /\ op_in.kind = "buffer"
  /\ op_in.v = <<Result(PYTHON_TOOL_BASE, 0, 0, 0), Result(1, 0, 5, 0)>>
  /\ op_out.kind = "resolved"
  /\ op_out.final[1].output = [kind |-> "value", val |-> 42]
  /\ op_out.final[2].output = [kind |-> "value", val |-> 5]

\* C30: whatever has been registered, a call naming a built-in resolves to
\* the fixed id of the built-in, 'sleep_ms' to 0 and 'cpu_spin' to 1, and a
\* batch submitted under the name 'sleep_ms' carries tool_id 0.
C30_BuiltinIdsFixed ==
  /\ ResolveToolId(CallByName("sleep_ms", PNone), tool_ids) = [ok |-> TRUE, id |-> 0, exc |-> ""]
  /\ ResolveToolId(CallByName("cpu_spin", PNone), tool_ids) = [ok |-> TRUE, id |-> 1, exc |-> ""]
  /\ \A h \in Threads : \A i \in 1..Len(calls[h]) :
       (nexec[h] = 1 /\ calls[h][i].has_name /\ calls[h][i].name = "sleep_ms") =>
         batch[h].recs[i].tool_id = 0

\* ------------------------------------------------------- id field width

\* Names the host registers one after the other.
WideNames == {"t1", "t2", "t3"}

\* struct "<H" of _CALL, binary.py line 14, at IdWidth bits: pack_into takes
\* 0 .. 2^IdWidth - 1 and raises struct.error for anything else.
FitsIdField(id) == id >= 0 /\ id < 2 ^ IdWidth

\* AgentRuntime.tool(name)(func), lines 62-69: the counter is read and
\* incremented, the id recorded under the name. The code tests no upper
\* limit; the guard stops the model one id past the field.
WideRegister(name) ==
  /\ wide.next_tool_id <= 2 ^ IdWidth
  /\ wide' = [wide EXCEPT !.tool_ids = [n \in DOMAIN @ \cup {name} |->
                                           IF n = name THEN wide.next_tool_id ELSE @[n]],
                          !.next_tool_id = NextToolId(@)]
  /\ UNCHANGED <<regVars, tableVars, callVars, endVars, startVars, lifeVars, reg_log,
                 codecVars, lock, rts, mreg, apiVars>>

\* execute() of a one-call batch by name, lines 77-78: _resolve_tool_id
\* finds the id, encode_calls packs it at binary.py line 96.
WideEncode(name) ==
  /\ name \in DOMAIN wide.tool_ids
  /\ wide' = [wide EXCEPT !.encoded =
                IF FitsIdField(wide.tool_ids[name]) THEN "ok" ELSE "struct.error"]
  /\ UNCHANGED <<regVars, tableVars, callVars, endVars, startVars, lifeVars, reg_log,
                 codecVars, lock, rts, mreg, apiVars>>

NextWide ==
  \/ \E name \in WideNames : WideRegister(name)
  \/ \E name \in WideNames : WideEncode(name)

WideSpec == Init /\ [][NextWide]_vars

\* C31: every id that tool() has assigned fits the tool_id field of the wire
\* record, and a call by a registered name is never refused by the encoder.
C31_AssignedIdFitsField ==
  /\ \A name \in DOMAIN wide.tool_ids : FitsIdField(wide.tool_ids[name])
  /\ wide.encoded # "struct.error"

\* Calls of h's batch whose implementation ran: the handler appended their
\* outcome to the active output table.
Appended(h) ==
  {i \in DOMAIN cst[h] : /\ cst[h][i] = "done"
                         /\ batch[h].recs[i].tool_id >= PYTHON_TOOL_BASE
                         /\ records[h][i].error_code \in {0, ERR_HOST_RAISED}}

\* C32: while an execute() that no other execute() overlaps is in the core,
\* the published slot table is the one it prepared itself and the output
\* table holds the outcomes of its own calls and nothing else (none when it
\* starts), whatever an earlier execute() left behind; every slot a handler
\* read is a slot of this batch.
C32_BatchStartsFresh ==
  \A h \in Threads :
    (pc[h] = "native" /\ ~overlapped[h]) =>
      /\ active_payloads = Some(own_payloads[h])
      /\ ~active_results.isNone
      /\ Len(active_results.v) = Cardinality(Appended(h))
      /\ \A i \in Appended(h) :
           /\ records[h][i].output \in 0..(Len(active_results.v) - 1)
           /\ active_results.v[records[h][i].output + 1] =
                Apply(running[h][i].func, OwnSlot(h, i).args, OwnSlot(h, i).kwargs)
      /\ \A i \in DOMAIN cst[h] :
           cst[h][i] = "running" =>
             /\ running[h][i].args = OwnSlot(h, i).args
             /\ running[h][i].kwargs = OwnSlot(h, i).kwargs

\* An execute() ended by raising in decode_results and left its tables
\* published with one outcome; the next execute() has since stored the
\* outcome of its own call at index 0.
C32_Witness ==
  \E g \in Threads, h \in Threads :
    /\ g # h
    /\ error[g].kind = "DecodeError"
    /\ Appended(g) # {}
    /\ pc[h] = "native" /\ ~overlapped[h]
    /\ Appended(h) # {}

\* ------------------------------------------------- tokens and the registry

\* An object whose memory is in use: constructed and not yet collected. The
\* registry holds a reference to every runtime it lists, so a runtime is
\* collected only after its entry is gone.
Alive(o) == rts[o].life \in {"ready", "failed", "torn"}

\* id(self), line 49: an integer no other object alive at the time has; the
\* id of a collected object can be handed out again.
IdChoices(o) == (1..MaxTokens) \ {rts[q].token : q \in {q \in Objects \ {o} : Alive(q)}}

\* A teardown that leaves the registry alone.
RegistryPop_Kept(token) == mreg

\* _RUNTIME_REGISTRY.pop(token, None), line 227
RegistryPop(token) == [t \in DOMAIN mreg \ {token} |-> mreg[t]]

\* __init__ of object o, lines 48-57: the token is id(self), the entry is
\* made at line 50, then the core creates the runtime; a null handle makes
\* __init__ raise at line 56 with the entry in place.
TokenConstruct(o, t, null_handle) ==
  /\ rts[o].life = "new"
  /\ t \in IdChoices(o)
  /\ rts' = [rts EXCEPT ![o].life = IF null_handle THEN "failed" ELSE "ready",
                        ![o].token = t]
  /\ mreg' = [u \in DOMAIN mreg \cup {t} |-> IF u = t THEN o ELSE mreg[u]]
  /\ UNCHANGED NotMulti

\* o.__del__() called by the host, lines 221-227, also a second time.
TokenTeardown(o) ==
  /\ rts[o].life \in {"ready", "torn"}
  /\ rts' = [rts EXCEPT ![o].life = "torn"]
  /\ mreg' = RegistryPop(rts[o].token)
  /\ UNCHANGED NotMulti

\* The object is collected once nothing refers to it: __del__ runs again
\* (lines 221-227) and the memory, with its id, is free for a new object.
TokenCollect(o) ==
  /\ rts[o].life = "torn"
  /\ rts' = [rts EXCEPT ![o].life = "gone"]
  /\ mreg' = RegistryPop(rts[o].token)
  /\ UNCHANGED NotMulti

NextToken ==
  \/ \E o \in Objects, t \in 1..MaxTokens, n \in BOOLEAN : TokenConstruct(o, t, n)
  \/ \E o \in Objects : TokenTeardown(o)
  \/ \E o \in Objects : TokenCollect(o)

TokenSpec == Init /\ [][NextToken]_vars

\* o has an entry in the registry.
Registered(o) == \E t \in DOMAIN mreg : mreg[t] = o

\* C33: every entry of the registry maps the token of a runtime to that
\* runtime, no two registered runtimes have the same token, and a runtime is
\* registered from its construction on (also one whose construction failed
\* after line 50) until its teardown, and not before or after.
C33_RegistryOwnership ==
  /\ \A t \in DOMAIN mreg : rts[mreg[t]].token = t
  /\ \A o \in Objects, q \in Objects :
       (o # q /\ Registered(o) /\ Registered(q)) => rts[o].token # rts[q].token
  /\ \A o \in Objects :
       /\ rts[o].life \in {"ready", "failed"} =>
            (rts[o].token \in DOMAIN mreg /\ mreg[rts[o].token] = o)
       /\ rts[o].life \in {"new", "torn", "gone"} => ~Registered(o)

\* A runtime was torn down and collected, and a runtime constructed later
\* got the same id: the entry under that token is the later runtime's.
C33_Witness ==
  \E o \in Objects, q \in Objects :
    /\ rts[o].life = "gone"
    /\ rts[q].life = "ready"
    /\ rts[q].token = rts[o].token
    /\ mreg[rts[q].token] = q

\* ------------------------------------------- trace ingestion and evaluation

\* Scores are in tenths. What compute_faithfulness can return for a trace:
\* no score (no contexts, RAGAS unavailable or failing), 0.4 or 0.6.
NoScore == 0 - 1

Scores == {NoScore, 4, 6}

\* latency_ms of a posted trace
Latencies == {100, 900}

\* faithfulness_result["score"] < 0.5, evaluator.py line 215: the literal 0.5
DETECTION_CUTOFF == 5

\* The AlertConfig rows a project is given: Slack on or off, the
\* hallucination threshold below, at or above 0.5, all three kinds of alert
\* enabled, a daily budget below the cost of one RAGAS run and a latency
\* threshold between the two latencies.
AlertConfigChoices ==
  {[isNone |-> FALSE, slack_enabled |-> s, hallucination_threshold |-> th,
    daily_cost_budget_usd |-> 1, latency_p95_threshold_ms |-> 500] :
     s \in BOOLEAN, th \in {3, 5, 8}} \
    {[isNone |-> FALSE, slack_enabled |-> FALSE, hallucination_threshold |-> th,
      daily_cost_budget_usd |-> 1, latency_p95_threshold_ms |-> 500] : th \in {3, 8}}

notApi == <<regVars, tableVars, callVars, endVars, startVars, lifeVars, reg_log, codecVars,
            lock, rts, mreg, wide>>

\* run_evaluations(trace), lines 186-227: the score RAGAS gave, the flag of
\* line 215 and the estimated cost of the RAGAS run (none without a score).
RunEvaluations(trace) ==
  [faithfulness |-> trace.faithfulness,
   hallucination_detected |-> trace.faithfulness # NoScore /\ trace.faithfulness < DETECTION_CUTOFF,
   evaluation_cost_usd |-> IF trace.faithfulness = NoScore THEN 0 ELSE 2]

\* An evaluations table without the unique constraint on trace_id.
CommitEvaluation_NoConstraint(t) ==
  [ok |-> TRUE, evals |-> [db_evals EXCEPT ![t] = @ + 1]]

\* db.add(evaluation); db.commit(), lines 119-120, against the table of
\* evaluation.py line 16 (trace_id unique): a second row for the trace is
\* refused with an IntegrityError.
CommitEvaluation(t) ==
  IF db_evals[t] > 0 THEN [ok |-> FALSE, evals |-> db_evals]
  ELSE [ok |-> TRUE, evals |-> [db_evals EXCEPT ![t] = @ + 1]]

RECURSIVE SumCost(_)
SumCost(S) ==
  IF S = {} THEN 0
  ELSE LET t == CHOOSE x \in S : TRUE
       IN  db_evals[t] * RunEvaluations(db_traces[t]).evaluation_cost_usd + SumCost(S \ {t})

\* MetricsService.get_daily_cost: the sum of evaluation_cost_usd over the
\* evaluations of the day.
GetDailyCost == SumCost(DOMAIN db_traces)

\* MetricsService.get_p95_latency: the latencies of the hour in ascending
\* order, the entry at index int(n * 0.95); 0 stands for None (no trace).
GetP95Latency ==
  LET ts == DOMAIN db_traces
      n == Cardinality(ts)
      sorted == CHOOSE q \in [1..n -> {db_traces[t].latency_ms : t \in ts}] :
                  /\ \A i \in 1..n, j \in 1..n : i <= j => q[i] <= q[j]
                  /\ \A v \in {db_traces[t].latency_ms : t \in ts} :
                       Cardinality({i \in 1..n : q[i] = v}) =
                         Cardinality({t \in ts : db_traces[t].latency_ms = v})
  IN  IF n = 0 THEN 0 ELSE sorted[((n * 95) \div 100) + 1]

\* POST /api/v1/alert-config/{project_id}: the project gets its AlertConfig.
CreateAlertConfig(c) ==
  /\ alert_cfg.isNone
  /\ alert_cfg' = c
  /\ UNCHANGED <<db_traces, to_queue, queue, db_evals, db_alerts, wk, npush, notApi>>

\* ingest_trace, traces.py lines 43-68: the trace is committed, the
\* evaluation job is handed to the background tasks and the client gets 202
\* with status "queued".
IngestTrace(t, score, latency) ==
  /\ t \notin DOMAIN db_traces
  /\ db_traces' = [u \in DOMAIN db_traces \cup {t} |->
                     IF u = t THEN [faithfulness |-> score, latency_ms |-> latency]
                     ELSE db_traces[u]]
  /\ to_queue' = to_queue \cup {t}
  /\ UNCHANGED <<queue, db_evals, db_alerts, alert_cfg, wk, npush, notApi>>

\* A background task that ends without pushing the job.
QueueEvaluation_Dropped(t) ==
  /\ t \in to_queue
  /\ to_queue' = to_queue \ {t}
  /\ UNCHANGED <<db_traces, queue, db_evals, db_alerts, alert_cfg, wk, npush, notApi>>

\* queue_evaluation, traces.py lines 16-25, run after the response was sent.
QueueEvaluation(t) ==
  /\ t \in to_queue
  /\ queue' = <<t>> \o queue
  /\ to_queue' = to_queue \ {t}
  /\ UNCHANGED <<db_traces, db_evals, db_alerts, alert_cfg, wk, npush, notApi>>

\* Somebody else pushes a job: for a trace that has a job already, or for a
\* trace id the database does not hold.
PushJob(t) ==
  /\ npush < MaxPushes
  /\ npush' = npush + 1
  /\ queue' = <<t>> \o queue
  /\ UNCHANGED <<db_traces, to_queue, db_evals, db_alerts, alert_cfg, wk, notApi>>

\* process_evaluation_queue, lines 67-96: brpop takes the job at the tail,
\* the trace is loaded and the evaluations table asked for a row of this
\* trace; an unknown trace and an evaluated one send the loop back to brpop.
WorkerPop(w) ==
  LET t == queue[Len(queue)]
  IN  /\ wk[w].pc = "idle"
      /\ queue # <<>>
      /\ queue' = SubSeq(queue, 1, Len(queue) - 1)
      /\ wk' = [wk EXCEPT ![w] =
                  IF t \notin DOMAIN db_traces \/ db_evals[t] > 0 THEN IdleWorker
                  ELSE [pc |-> "evaluate", trace |-> t]]
      /\ UNCHANGED <<db_traces, to_queue, db_evals, db_alerts, alert_cfg, npush, notApi>>

\* lines 101-121 and 145-151: the metrics are computed, the Evaluation is
\* added and committed; a commit the database refuses raises into the
\* handler of line 145, which rolls back and goes on with the next job.
WorkerCommit(w) ==
  LET c == CommitEvaluation(wk[w].trace)
  IN  /\ wk[w].pc = "evaluate"
      /\ db_evals' = c.evals
      /\ wk' = [wk EXCEPT ![w] = IF c.ok THEN [pc |-> "alerts", trace |-> @.trace]
                                 ELSE IdleWorker]
      /\ UNCHANGED <<db_traces, to_queue, queue, db_alerts, alert_cfg, npush, notApi>>

\* The score is below AlertConfig.hallucination_threshold ("Alert if
\* faithfulness < this", alert_config.py line 23).
BelowConfiguredThreshold(results) ==
  results.faithfulness # NoScore /\ results.faithfulness < alert_cfg.hallucination_threshold

\* check_and_send_alerts, lines 346-348, with hallucination alerts enabled:
\* the flag of run_evaluations and a score that is not None.
HallucinationAlertDue(results) ==
  results.hallucination_detected /\ results.faithfulness # NoScore

\* check_and_send_alerts, lines 335-368: without an AlertConfig with Slack
\* enabled nothing is checked; else the HALLUCINATION alert is added and
\* committed when it is due.
AlertHallucination(w) ==
  LET t == wk[w].trace
  IN  /\ wk[w].pc = "alerts"
      /\ IF alert_cfg.isNone \/ ~alert_cfg.slack_enabled
           THEN /\ wk' = [wk EXCEPT ![w] = IdleWorker]
                /\ UNCHANGED db_alerts
           ELSE /\ wk' = [wk EXCEPT ![w].pc = "cost"]
                /\ db_alerts' =
                     IF HallucinationAlertDue(RunEvaluations(db_traces[t]))
                       THEN [db_alerts EXCEPT !.hallucination[t] = @ + 1]
                       ELSE db_alerts
      /\ UNCHANGED <<db_traces, to_queue, queue, db_evals, alert_cfg, npush, notApi>>

\* lines 386-396: the cost of the day is compared with the budget and the
\* alerts table asked for a COST_SPIKE alert of today.
AlertCostCheck(w) ==
  /\ wk[w].pc = "cost"
  /\ wk' = [wk EXCEPT ![w].pc =
              IF GetDailyCost > alert_cfg.daily_cost_budget_usd /\ db_alerts.cost_spike = 0
                THEN "cost_insert" ELSE "latency"]
  /\ UNCHANGED <<db_traces, to_queue, queue, db_evals, db_alerts, alert_cfg, npush, notApi>>

\* lines 398-413: the COST_SPIKE alert is added and committed.
AlertCostInsert(w) ==
  /\ wk[w].pc = "cost_insert"
  /\ db_alerts' = [db_alerts EXCEPT !.cost_spike = @ + 1]
  /\ wk' = [wk EXCEPT ![w].pc = "latency"]
  /\ UNCHANGED <<db_traces, to_queue, queue, db_evals, alert_cfg, npush, notApi>>

\* lines 427-437: the p95 latency of the hour is compared with the threshold
\* and the alerts table asked for a HIGH_LATENCY alert of the last hour.
AlertLatencyCheck(w) ==
  /\ wk[w].pc = "latency"
  /\ wk' = [wk EXCEPT ![w] =
              IF GetP95Latency > alert_cfg.latency_p95_threshold_ms /\ db_alerts.high_latency = 0
                THEN [pc |-> "latency_insert", trace |-> @.trace] ELSE IdleWorker]
  /\ UNCHANGED <<db_traces, to_queue, queue, db_evals, db_alerts, alert_cfg, npush, notApi>>

\* lines 439-453: the HIGH_LATENCY alert is added and committed; the loop
\* goes back to brpop.
AlertLatencyInsert(w) ==
  /\ wk[w].pc = "latency_insert"
  /\ db_alerts' = [db_alerts EXCEPT !.high_latency = @ + 1]
  /\ wk' = [wk EXCEPT ![w] = IdleWorker]
  /\ UNCHANGED <<db_traces, to_queue, queue, db_evals, alert_cfg, npush, notApi>>

\* One step of worker w's loop.
WorkerStep(w) ==
  \/ WorkerPop(w)
  \/ WorkerCommit(w)
  \/ AlertHallucination(w)
  \/ AlertCostCheck(w)
  \/ AlertCostInsert(w)
  \/ AlertLatencyCheck(w)
  \/ AlertLatencyInsert(w)

NextApi ==
  \/ \E c \in AlertConfigChoices : CreateAlertConfig(c)
  \/ \E t \in Traces, f \in Scores, l \in Latencies : IngestTrace(t, f, l)
  \/ \E t \in Traces : QueueEvaluation(t)
  \/ \E t \in Traces : PushJob(t)
  \/ \E w \in Workers : WorkerPop(w)
  \/ \E w \in Workers : WorkerCommit(w)
  \/ \E w \in Workers : AlertHallucination(w)
  \/ \E w \in Workers : AlertCostCheck(w)
  \/ \E w \in Workers : AlertCostInsert(w)
  \/ \E w \in Workers : AlertLatencyCheck(w)
  \/ \E w \in Workers : AlertLatencyInsert(w)

\* The API and two worker processes that share the queue and the database,
\* all within one UTC day and one hour.
ApiSpec == Init /\ [][NextApi]_vars

\* C34: no trace has more than one Evaluation row, and a worker that pops a
\* job for a trace that is evaluated already goes back to the queue without
\* writing to the database.
C34_OneEvaluationPerTrace ==
  /\ [](\A t \in Traces : db_evals[t] <= 1)
  /\ [][(/\ queue # <<>>
          /\ queue' = SubSeq(queue, 1, Len(queue) - 1)
          /\ queue[Len(queue)] \in DOMAIN db_traces
          /\ db_evals[queue[Len(queue)]] > 0)
            => (wk' = wk /\ db_traces' = db_traces /\ db_evals' = db_evals
                         /\ db_alerts' = db_alerts)]_vars

\* A trace has its Evaluation while a worker that popped another job for the
\* same trace, and found no evaluation then, is about to commit its own.
C34_Witness ==
  \E w \in Workers :
    /\ wk[w].pc = "evaluate"
    /\ db_evals[wk[w].trace] = 1

\* The worker process that keeps running.
ApiWorker == CHOOSE w \in Workers : TRUE

NextApiLive ==
  \/ \E c \in AlertConfigChoices : CreateAlertConfig(c)
  \/ \E t \in Traces, f \in Scores, l \in Latencies : IngestTrace(t, f, l)
  \/ \E t \in Traces : QueueEvaluation(t)
  \/ \E t \in Traces : PushJob(t)
  \/ WorkerStep(ApiWorker)

\* The API and one worker: the background task of every answered request
\* runs, and the worker's loop (while True, line 62) keeps taking steps.
ApiLiveSpec ==
  /\ Init
  /\ [][NextApiLive]_vars
  /\ \A t \in Traces : WF_vars(QueueEvaluation(t))
  /\ WF_vars(WorkerStep(ApiWorker))

\* C35: once a trace has been ingested (the row committed and 202 answered),
\* an Evaluation row for it eventually exists.
C35_IngestedEventuallyEvaluated ==
  \A t \in Traces : (t \in DOMAIN db_traces) ~> (db_evals[t] >= 1)

\* Every trace was ingested, queued by its background task and evaluated.
C35_Witness ==
  \A t \in Traces : t \in DOMAIN db_traces /\ t \notin to_queue /\ db_evals[t] = 1

\* C36: the project has at most one COST_SPIKE alert of the day and at most
\* one HIGH_LATENCY alert of the hour, whatever the workers do.
C36_OneAlertPerPeriod ==
  /\ db_alerts.cost_spike <= 1
  /\ db_alerts.high_latency <= 1

\* C37: when a worker runs the hallucination check for a project with Slack
\* and hallucination alerts enabled, it creates the HALLUCINATION alert of the
\* trace exactly when the faithfulness score is below the threshold the
\* project configured.
C37_AlertIffBelowThreshold ==
  [][\A w \in Workers :
       (/\ wk[w].pc = "alerts"
        /\ wk'[w].pc # "alerts"
        /\ ~alert_cfg.isNone
        /\ alert_cfg.slack_enabled)
         => LET t == wk[w].trace
                before == db_alerts.hallucination[t]
                after == db_alerts'.hallucination[t]
            IN  IF BelowConfiguredThreshold(RunEvaluations(db_traces[t]))
                  THEN after = before + 1
                  ELSE after = before]_vars

\* ---------------------------------------------- the callback's return value

\* The runtimes the trampoline may find behind the token: no tool, or one
\* tool at the base; no slot table, an empty one, or one with a slot; no
\* output table, or one that holds an entry already.
CallbackRuntimes ==
  {[python_tools |-> tools, active_payloads |-> slots, active_results |-> outs] :
     tools \in {[i \in {} |-> ""]} \cup {[i \in {PYTHON_TOOL_BASE} |-> f] : f \in Impls},
     slots \in {None, Some(<<>>), Some(<<[args |-> <<21>>, kwargs |-> {}]>>),
                Some(<<[args |-> <<>>, kwargs |-> {}]>>)},
     outs \in {None, Some(<<>>), Some(<<[kind |-> "value", val |-> 7]>>)}}

\* What the core hands to the trampoline: whether the token is still
\* registered, the call record, and a result record with whatever the
\* core left in it.
CallbackInputs ==
  {[kind |-> "callback", known |-> k, rt |-> r,
    call |-> [tool_id |-> id, payload |-> slot], result |-> prior] :
     k \in BOOLEAN, r \in CallbackRuntimes,
     id \in {PYTHON_TOOL_BASE, PYTHON_TOOL_BASE + 1}, slot \in {0, 1},
     prior \in {NoRecord, Result(9, 9, 9, 9)}}

\* return 0, line 196
SuccessReturn == 0

\* A failure path that returns 0 to the core.
FailureReturn_Zero == SuccessReturn

\* return -1, lines 172, 183, 206 and 253
FailureReturn == 0 - 1

\* The three assignments through result_ptr.contents that precede every
\* return statement, in the order of the code, and the return itself.
WriteAndReturn(r, ret) ==
  << <<"status", r.status>>, <<"error_code", r.error_code>>, <<"output", r.output>>,
     <<"return", ret>> >>

\* _python_callback_trampoline, lines 247-254, and _handle_python_call,
\* lines 163-206, as a function of what the core passes and of the runtime
\* behind the token: the events of the path taken and the output table left.
TrampolineCall(in) ==
  LET id == in.call.tool_id
      idx == in.call.payload
      R == in.rt
      same == R.active_results
  IN  IF ~in.known
        THEN [events |-> WriteAndReturn(StaleContextResult(id), FailureReturn), results |-> same]
      ELSE IF id \notin DOMAIN R.python_tools
        THEN [events |-> WriteAndReturn(UnknownToolResult(id), FailureReturn), results |-> same]
      ELSE IF R.active_payloads.isNone \/ idx < 0 \/ idx >= Len(R.active_payloads.v)
        THEN [events |-> WriteAndReturn(BadSlotResult(id), FailureReturn), results |-> same]
      ELSE LET slot == R.active_payloads.v[idx + 1]
               out == Apply(R.python_tools[id], slot.args, slot.kwargs)
               table == Append(IF R.active_results.isNone THEN <<>> ELSE R.active_results.v, out)
               r == HostResult(id, out, Len(table) - 1)
           IN  [events |-> WriteAndReturn(r, IF out.kind = "value" THEN SuccessReturn
                                                                    ELSE FailureReturn),
                results |-> Some(table)]

\* The result record after the writes of a path were applied to it.
RECURSIVE ApplyWrites(_, _)
ApplyWrites(rec, events) ==
  IF events = <<>> THEN rec
  ELSE LET e == Head(events)
       IN  ApplyWrites(IF e[1] = "return" THEN rec
                       ELSE [rec EXCEPT ![e[1]] = e[2]], Tail(events))

\* The core calls the trampoline for one call.
CallbackEnter(in) ==
  /\ op_in = NoOp
  /\ op_in' = in
  /\ UNCHANGED <<op_out, NotCodec>>

\* The trampoline returns to the core.
CallbackReturn ==
  LET o == TrampolineCall(op_in)
  IN  /\ op_in.kind = "callback"
      /\ op_out = NoOp
      /\ op_out' = [kind |-> "returned", events |-> o.events,
                    ret |-> o.events[Len(o.events)][2],
                    result |-> ApplyWrites(op_in.result, o.events),
                    results |-> o.results]
      /\ UNCHANGED <<op_in, NotCodec>>

NextCallback ==
  \/ \E in \in CallbackInputs : CallbackEnter(in)
  \/ CallbackReturn

CallbackSpec == Init /\ [][NextCallback]_vars

\* C38: when the trampoline has returned, the integer it returned is 0 if
\* and only if the status in the result record is 0 (and nonzero if and only
\* if that status is nonzero), and status, error_code and output were each
\* written before the return.
C38_ReturnMirrorsStatus ==
  op_out.kind = "returned" =>
    /\ (op_out.ret = 0) <=> (op_out.result.status = 0)
    /\ (op_out.ret # 0) <=> (op_out.result.status # 0)
    /\ op_out.events[Len(op_out.events)][1] = "return"
    /\ \A f \in {"status", "error_code", "output"} :
         \E k \in 1..(Len(op_out.events) - 1) : op_out.events[k][1] = f

\* The implementation raised, into a record the core had left non-zero and
\* an output table that held an entry: the trampoline returned -1 with
\* status 1, error_code -500 and output 1.
C38_Witness ==
  /\ op_out.kind = "returned"
  /\ op_out.ret = 0 - 1
  /\ op_in.result = Result(9, 9, 9, 9)
  /\ op_out.result.status = 1
  /\ op_out.result.error_code = ERR_HOST_RAISED
  /\ op_out.result.output = 1

====
